---- MODULE Spec2Model ----
(***************************************************************************)
(* A model of the GridWorld repository: the grid configuration and its     *)
(* validation (src/gridworld/config.py), the environment                   *)
(* (src/gridworld/environment.py), the Q-learning agent                    *)
(* (src/gridworld/agent.py), the WebSocket training server's task         *)
(* handling, training loop and broadcast (src/gridworld/server.py), the    *)
(* episode loops of src/gridworld/train.py and tests/test_agent.py, and    *)
(* the Tk game loop (src/gridworld/play_tkinter.py).                       *)
(*                                                                         *)
(* Rewards are real numbers in the source; the model keeps them in tenths  *)
(* (10.0 is 100, -0.1 is -1) so that they stay integers.                   *)
(***************************************************************************)
EXTENDS Integers, Sequences, FiniteSets, TLC

VARIABLES
    args,        \* the arguments handed to GridWorldConfig(...)
    built,       \* what the construction gave: its status and the object
    cfg,         \* the environment's config (self.config)
    agent_pos,   \* self.agent_pos: None, or <<x, y>>
    step_count,  \* self.step_count
    ret,         \* what the last call on the environment returned or raised
    accepted,    \* history: accepted step calls since the last reset
    prev,        \* history: how the episode stood when reset was last called
    training_task,      \* server.py's global training_task: NoTask or a task id
    current_agent,      \* server.py's global current_agent: NoTask, or the id of
                        \* the task that built it
    tasks,              \* the training_loop tasks created so far, by id
    active_connections, \* manager.active_connections: a list of clients
    handler,            \* each client's websocket_endpoint coroutine
    agent,       \* a QLearningAgent: config, num_states, num_actions, q_table,
                 \* epsilon
    aret,        \* what the last call on the agent returned or raised
    file,        \* the file save() writes: NoFile, or the pickled dict
    saver,       \* history: the agent that wrote the file, as it was then
    learn_calls, \* history: calls of learn so far
    decay_calls, \* history: calls of decay_epsilon so far
    twin,        \* two environments of one configuration, called in step
    loop,        \* one training_loop coroutine: where it stands, what it did
    bcast,       \* one manager.broadcast call: where its for loop stands
    game         \* the Tk game: its environment, renderer and game_step state

vars == <<args, built, cfg, agent_pos, step_count, ret, accepted, prev,
          training_task, current_agent, tasks, active_connections, handler,
          agent, aret, file, saver, learn_calls, decay_calls, twin, loop,
          bcast, game>>

envVars == <<cfg, agent_pos, step_count, ret, accepted, prev>>
cfgVars == <<args, built>>
srvVars == <<training_task, current_agent, tasks, active_connections, handler>>
agtVars == <<agent, aret, file, saver, learn_calls, decay_calls>>
twinVars == <<twin>>
loopVars == <<loop>>
bcastVars == <<bcast>>
gameVars == <<game>>

----------------------------------------------------------------------------
(* Bounds of the model *)

\* grids of 1 x 1 up to MaxSize x MaxSize
MaxSize == 2
\* at most this many obstacles in a configuration
MaxObstacles == 1
\* max_steps is MaxSteps - 1 or MaxSteps
MaxSteps == 2
\* websocket clients
NumClients == 2
\* training tasks that may be created in one run
MaxTasks == 3

\* calls of learn in one run
MaxLearns == 1
\* calls of decay_epsilon in one run
MaxDecays == 2

\* episodes of one training run
MaxEpisodes == 2

\* env.step calls of one training run
MaxLoopSteps == 3

\* key presses in one run of the Tk game
MaxKeys == 3

\* iterations of the training loop that joins environment and agent
MaxTrainSteps == 2

\* accepted steps in one episode: far enough to pass max_steps
StepCap == MaxSteps + 1

----------------------------------------------------------------------------
(* Program constants *)

UP == 0
DOWN == 1
LEFT == 2
RIGHT == 3

\* GridWorldConfig's default rewards, in tenths: 10.0, -10.0 and -0.1
goal_reward == 100
obstacle_penalty == -100
step_penalty == -1

\* agent_pos before the first reset
None == <<>>

\* obstacles=None, the constructor's default; a given list l is <<l>>
NoObstacles == <<>>

----------------------------------------------------------------------------
(* GridWorldConfig *)

\* coordinates handed to the constructor: one below the grid up to one past
\* the largest grid
Coord == -1..MaxSize
Pos == Coord \X Coord

\* the subsets of S with at most k elements
RECURSIVE SetsUpTo(_, _)
SetsUpTo(S, k) ==
    IF k = 0 THEN {{}}
    ELSE LET smaller == SetsUpTo(S, k - 1)
         IN  smaller \cup {s \cup {p} : s \in smaller, p \in S}

ObstacleSets == SetsUpTo(Pos, MaxObstacles)

RawArgs ==
    [grid_size : 1..MaxSize,
     start_pos : Pos,
     goal_pos : Pos,
     obstacles : {<<s>> : s \in ObstacleSets} \cup {NoObstacles}]

\* 0 <= p[0] < grid_size and 0 <= p[1] < grid_size
InGrid(p, size) ==
    /\ 0 <= p[1] /\ p[1] < size
    /\ 0 <= p[2] /\ p[2] < size

\* if self.obstacles is None: self.obstacles = []
NormObstacles(a) == IF a.obstacles = NoObstacles THEN {} ELSE a.obstacles[1]

\* __post_init__ without its last check
PostInitNoDistinct(a) ==
    IF ~InGrid(a.start_pos, a.grid_size) THEN "Start position outside grid"
    ELSE IF ~InGrid(a.goal_pos, a.grid_size) THEN "Goal position outside grid"
    ELSE IF \E obs \in NormObstacles(a) : ~InGrid(obs, a.grid_size)
        THEN "Obstacle position outside grid"
    ELSE "ok"

\* __post_init__: the error it raises, or "ok"
PostInit(a) ==
    IF ~InGrid(a.start_pos, a.grid_size) THEN "Start position outside grid"
    ELSE IF ~InGrid(a.goal_pos, a.grid_size) THEN "Goal position outside grid"
    ELSE IF \E obs \in NormObstacles(a) : ~InGrid(obs, a.grid_size)
        THEN "Obstacle position outside grid"
    ELSE IF a.start_pos = a.goal_pos
        THEN "Start and goal positions cannot be the same"
    ELSE "ok"

\* the object the constructor leaves behind when it does not raise
ConfigOf(a, ms) ==
    [grid_size |-> a.grid_size,
     start_pos |-> a.start_pos,
     goal_pos |-> a.goal_pos,
     obstacles |-> NormObstacles(a),
     max_steps |-> ms]

\* GridWorldConfig(**args)
Construct ==
    /\ built.status = "unbuilt"
    /\ built' = [status |-> PostInit(args),
                 config |-> ConfigOf(args, MaxSteps)]
    /\ UNCHANGED <<args, envVars, srvVars, agtVars, twinVars, loopVars,
                   bcastVars, gameVars>>

\* every configuration the constructor accepts, within the bounds
ValidConfigs ==
    {ConfigOf(a, ms) : a \in {r \in RawArgs : PostInit(r) = "ok"},
                       ms \in (MaxSteps - 1)..MaxSteps}

----------------------------------------------------------------------------
(* GridWorldEnv *)

Actions == {UP, DOWN, LEFT, RIGHT}

\* the values handed to step(): the four actions and one on either side
ActionInputs == (UP - 1)..(RIGHT + 1)

Max(a, b) == IF a >= b THEN a ELSE b
Min(a, b) == IF a <= b THEN a ELSE b

\* the info mapping reset() returns: {}
EmptyInfo == [k \in {} |-> TRUE]

\* the moves without max(0, .) and min(grid_size - 1, .)
MoveUnclamped(pos, action, size) ==
    IF action = UP THEN <<pos[1], pos[2] - 1>>
    ELSE IF action = DOWN THEN <<pos[1], pos[2] + 1>>
    ELSE IF action = LEFT THEN <<pos[1] - 1, pos[2]>>
    ELSE <<pos[1] + 1, pos[2]>>

\* the moves with UP and DOWN the wrong way round
MoveInvertedY(pos, action, size) ==
    IF action = UP THEN <<pos[1], Min(size - 1, pos[2] + 1)>>
    ELSE IF action = DOWN THEN <<pos[1], Max(0, pos[2] - 1)>>
    ELSE IF action = LEFT THEN <<Max(0, pos[1] - 1), pos[2]>>
    ELSE <<Min(size - 1, pos[1] + 1), pos[2]>>

\* new_pos after the if/elif chain of step(), for an action in Actions
Move(pos, action, size) ==
    IF action = UP THEN <<pos[1], Max(0, pos[2] - 1)>>
    ELSE IF action = DOWN THEN <<pos[1], Min(size - 1, pos[2] + 1)>>
    ELSE IF action = LEFT THEN <<Max(0, pos[1] - 1), pos[2]>>
    ELSE <<Min(size - 1, pos[1] + 1), pos[2]>>

\* the reward with the obstacle check ahead of the goal check
StepRewardObstacleFirst(pos, c) ==
    IF pos \in c.obstacles THEN obstacle_penalty
    ELSE IF pos = c.goal_pos THEN goal_reward
    ELSE step_penalty

\* the reward when it starts from 0 instead of step_penalty
StepRewardZeroDefault(pos, c) ==
    IF pos = c.goal_pos THEN goal_reward
    ELSE IF pos \in c.obstacles THEN obstacle_penalty
    ELSE 0

\* reward, after the goal / obstacle checks
StepReward(pos, c) ==
    IF pos = c.goal_pos THEN goal_reward
    ELSE IF pos \in c.obstacles THEN obstacle_penalty
    ELSE step_penalty

\* terminated when only the goal ends the episode
StepTerminatedGoalOnly(pos, c) ==
    IF pos = c.goal_pos THEN TRUE
    ELSE FALSE

\* terminated, after the goal / obstacle checks
StepTerminated(pos, c) ==
    IF pos = c.goal_pos THEN TRUE
    ELSE IF pos \in c.obstacles THEN TRUE
    ELSE FALSE

\* truncated with > for >=
StepTruncatedLate(count, c) == count > c.max_steps

\* truncated = self.step_count >= self.config.max_steps
StepTruncated(count, c) == count >= c.max_steps

\* the info dict where the goal hides the obstacle under it
StepInfoGoalFirst(pos, count, c) ==
    [step_count |-> count,
     is_goal |-> pos = c.goal_pos,
     is_obstacle |-> pos # c.goal_pos /\ pos \in c.obstacles]

\* the info dict of step()
StepInfo(pos, count, c) ==
    [step_count |-> count,
     is_goal |-> pos = c.goal_pos,
     is_obstacle |-> pos \in c.obstacles]

\* a call that raised: nothing is returned
Raised(op, err) ==
    [op |-> op, err |-> err, obs |-> None, reward |-> 0,
     terminated |-> FALSE, truncated |-> FALSE, info |-> EmptyInfo]

\* step() on an environment that was never reset:
\* raise RuntimeError("Environment not initialized. Call reset() first.")
NotResetOutcome(pos, count, action) ==
    [agent_pos |-> pos, step_count |-> count,
     ret |-> Raised("step", "RuntimeError")]

\* the invalid action found only after the step was counted
InvalidActionCounted(pos, count, action) ==
    [agent_pos |-> pos, step_count |-> count + 1,
     ret |-> Raised("step", "ValueError")]

\* step() with an action that matches no branch:
\* raise ValueError(f"Invalid action: {action}. Must be 0-3.")
InvalidActionOutcome(pos, count, action) ==
    [agent_pos |-> pos, step_count |-> count,
     ret |-> Raised("step", "ValueError")]

\* step() that reports truncated only when the step did not terminate
AcceptedOutcomeOneFlag(pos, count, action, c) ==
    LET new_pos == Move(pos, action, c.grid_size)
        n == count + 1
    IN  [agent_pos |-> new_pos, step_count |-> n,
         ret |-> [op |-> "step", err |-> "ok",
                  obs |-> new_pos,
                  reward |-> StepReward(new_pos, c),
                  terminated |-> StepTerminated(new_pos, c),
                  truncated |-> ~StepTerminated(new_pos, c)
                                    /\ StepTruncated(n, c),
                  info |-> StepInfo(new_pos, n, c)]]

\* step() that counts a step only when the agent moved
AcceptedOutcomeMovesOnly(pos, count, action, c) ==
    LET new_pos == Move(pos, action, c.grid_size)
        n == IF new_pos = pos THEN count ELSE count + 1
    IN  [agent_pos |-> new_pos, step_count |-> n,
         ret |-> [op |-> "step", err |-> "ok",
                  obs |-> new_pos,
                  reward |-> StepReward(new_pos, c),
                  terminated |-> StepTerminated(new_pos, c),
                  truncated |-> StepTruncated(n, c),
                  info |-> StepInfo(new_pos, n, c)]]

\* step() with one of the four actions
AcceptedOutcome(pos, count, action, c) ==
    LET new_pos == Move(pos, action, c.grid_size)
        n == count + 1
    IN  [agent_pos |-> new_pos, step_count |-> n,
         ret |-> [op |-> "step", err |-> "ok",
                  obs |-> new_pos,
                  reward |-> StepReward(new_pos, c),
                  terminated |-> StepTerminated(new_pos, c),
                  truncated |-> StepTruncated(n, c),
                  info |-> StepInfo(new_pos, n, c)]]

\* step() with the action checked ahead of the position
StepOutcomeActionFirst(pos, count, action, c) ==
    IF action \notin Actions THEN InvalidActionOutcome(pos, count, action)
    ELSE IF pos = None THEN NotResetOutcome(pos, count, action)
    ELSE AcceptedOutcome(pos, count, action, c)

\* step(action): the state it leaves and what it returns or raises
StepOutcome(pos, count, action, c) ==
    IF pos = None THEN NotResetOutcome(pos, count, action)
    ELSE IF action \notin Actions THEN InvalidActionOutcome(pos, count, action)
    ELSE AcceptedOutcome(pos, count, action, c)

\* reset() that leaves step_count as it is
ResetOutcomeKeepsCount(c) ==
    [agent_pos |-> c.start_pos, step_count |-> step_count,
     ret |-> [op |-> "reset", err |-> "ok",
              obs |-> c.start_pos, reward |-> 0,
              terminated |-> FALSE, truncated |-> FALSE, info |-> EmptyInfo]]

\* reset(): the state it leaves and what it returns
ResetOutcome(c) ==
    [agent_pos |-> c.start_pos, step_count |-> 0,
     ret |-> [op |-> "reset", err |-> "ok",
              obs |-> c.start_pos, reward |-> 0,
              terminated |-> FALSE, truncated |-> FALSE, info |-> EmptyInfo]]

\* nothing called yet
NoCall == Raised("none", "ok")

\* how the episode stands after the call that returned r
Standing(r) ==
    IF r.op # "step" \/ r.err # "ok" THEN "none"
    ELSE IF r.terminated /\ r.truncated THEN "terminated and truncated"
    ELSE IF r.terminated THEN "terminated"
    ELSE IF r.truncated THEN "truncated"
    ELSE "running"

Reset ==
    LET o == ResetOutcome(cfg)
    IN  /\ agent_pos' = o.agent_pos
        /\ step_count' = o.step_count
        /\ ret' = o.ret
        /\ accepted' = 0
        /\ prev' = Standing(ret)
        /\ UNCHANGED <<cfg, cfgVars, srvVars, agtVars, twinVars, loopVars,
                       bcastVars, gameVars>>

Step(action) ==
    LET o == StepOutcome(agent_pos, step_count, action, cfg)
    IN  /\ o.ret.err = "ok" => step_count < StepCap
        /\ agent_pos' = o.agent_pos
        /\ step_count' = o.step_count
        /\ ret' = o.ret
        /\ accepted' = IF o.ret.err = "ok" THEN accepted + 1 ELSE accepted
        /\ prev' = "none"
        /\ UNCHANGED <<cfg, cfgVars, srvVars, agtVars, twinVars, loopVars,
                       bcastVars, gameVars>>

\* get_state_index(position): int(y * grid_size + x), of the agent's position
\* when position is None
get_state_index(position, pos, c) ==
    IF position = None /\ pos = None THEN [err |-> "RuntimeError", val |-> 0]
    ELSE LET p == IF position = None THEN pos ELSE position
         IN  [err |-> "ok", val |-> p[2] * c.grid_size + p[1]]

\* the inverse with x and y the wrong way round
get_position_from_index_swapped(state_index, c) ==
    LET y == state_index \div c.grid_size
        x == state_index % c.grid_size
    IN  <<y, x>>

\* get_position_from_index(state_index): (index % size, index // size)
get_position_from_index(state_index, c) ==
    LET y == state_index \div c.grid_size
        x == state_index % c.grid_size
    IN  <<x, y>>

\* num_states: grid_size * grid_size
num_states(c) == c.grid_size * c.grid_size

\* the positions handed to get_state_index: None and every coordinate pair
PositionInputs == {None} \cup Pos

\* the indices handed to get_position_from_index: one below 0 up to one past
\* the last
IndexInputs(c) == -1..num_states(c)

GetStateIndex(position) ==
    LET r == get_state_index(position, agent_pos, cfg)
    IN  /\ ret' = [op |-> "get_state_index", err |-> r.err,
                   arg |-> position, val |-> r.val]
        /\ UNCHANGED <<cfg, agent_pos, step_count, accepted, prev, cfgVars,
                     srvVars, agtVars, twinVars, loopVars,
                     bcastVars, gameVars>>

GetPositionFromIndex(state_index) ==
    /\ ret' = [op |-> "get_position_from_index", err |-> "ok",
               arg |-> state_index,
               val |-> get_position_from_index(state_index, cfg)]
    /\ UNCHANGED <<cfg, agent_pos, step_count, accepted, prev, cfgVars,
                     srvVars, agtVars, twinVars, loopVars,
                     bcastVars, gameVars>>

\* an environment that offers five actions
num_actions_five(c) == 5

\* num_actions: 4
num_actions(c) == 4

\* the grid render() draws, grid[y][x]: '.' everywhere, then 'X' on the
\* obstacles, then 'G' on the goal, then 'A' on the agent if there is one
RenderGrid(pos, c) ==
    [y \in 0..(c.grid_size - 1) |->
        [x \in 0..(c.grid_size - 1) |->
            IF pos # None /\ pos = <<x, y>> THEN "A"
            ELSE IF c.goal_pos = <<x, y>> THEN "G"
            ELSE IF <<x, y>> \in c.obstacles THEN "X"
            ELSE "."]]

\* render() that counts a step
render_counts(pos, count, c) ==
    [agent_pos |-> pos, step_count |-> count + 1,
     val |-> [step |-> count + 1, grid |-> RenderGrid(pos, c)]]

\* render(): the state it leaves and the string it returns, "Step: n" over
\* the grid
render(pos, count, c) ==
    [agent_pos |-> pos, step_count |-> count,
     val |-> [step |-> count, grid |-> RenderGrid(pos, c)]]

Render ==
    LET o == render(agent_pos, step_count, cfg)
    IN  /\ agent_pos' = o.agent_pos
        /\ step_count' = o.step_count
        /\ ret' = [op |-> "render", err |-> "ok", arg |-> None,
                   val |-> o.val]
        /\ UNCHANGED <<cfg, accepted, prev, cfgVars, srvVars, agtVars,
                   twinVars, loopVars, bcastVars, gameVars>>

NumStates ==
    /\ ret' = [op |-> "num_states", err |-> "ok", arg |-> None,
               val |-> num_states(cfg)]
    /\ UNCHANGED <<cfg, agent_pos, step_count, accepted, prev, cfgVars,
                   srvVars, agtVars, twinVars, loopVars, bcastVars, gameVars>>

NumActions ==
    /\ ret' = [op |-> "num_actions", err |-> "ok", arg |-> None,
               val |-> num_actions(cfg)]
    /\ UNCHANGED <<cfg, agent_pos, step_count, accepted, prev, cfgVars,
                   srvVars, agtVars, twinVars, loopVars, bcastVars, gameVars>>

----------------------------------------------------------------------------
(* The server: websocket_endpoint handlers and training_loop tasks.  Every  *)
(* action is one run of a coroutine from one suspension point (an await     *)
(* that gives the event loop control) to the next.                          *)

Clients == 1..NumClients

\* training_task = None, current_agent = None
NoTask == 0

\* the grid training_loop builds
ServerGridConfig ==
    [grid_size |-> 5, start_pos |-> <<0, 0>>, goal_pos |-> <<4, 4>>,
     obstacles |-> {<<1, 1>>, <<2, 2>>, <<3, 1>>}, max_steps |-> 100]

\* a task asyncio.create_task just made: its coroutine has not run yet
NewTask == [pc |-> "created", must_cancel |-> FALSE]

\* training_task and not training_task.done()
TaskRunning == training_task # NoTask /\ tasks[training_task].pc # "done"

\* training_task.cancel(): CancelledError is thrown into the task when the
\* event loop next runs it
CancelTask(t) == [tasks EXCEPT ![t].must_cancel = TRUE]

\* manager.connect: await websocket.accept(), append, then wait for a message
Connect(c) ==
    /\ handler[c].pc = "closed"
    /\ active_connections' = Append(active_connections, c)
    /\ handler' = [handler EXCEPT ![c].pc = "recv"]
    /\ UNCHANGED <<training_task, current_agent, tasks, cfgVars, envVars,
                   agtVars, twinVars, loopVars, bcastVars, gameVars>>

\* list.remove(websocket): the first occurrence is taken out
Remove(list, c) ==
    LET i == CHOOSE k \in 1..Len(list) :
                list[k] = c /\ \A j \in 1..(k - 1) : list[j] # c
    IN  SubSeq(list, 1, i - 1) \o SubSeq(list, i + 1, Len(list))

\* receive_json raises WebSocketDisconnect: manager.disconnect(websocket).
\* bcast.stayed is history: the connection has not stayed through the
\* broadcast that is running, if one is.
Disconnect(c) ==
    /\ handler[c].pc = "recv"
    /\ active_connections' = Remove(active_connections, c)
    /\ handler' = [handler EXCEPT ![c].pc = "closed"]
    /\ bcast' = [bcast EXCEPT !.stayed = @ \ {c}]
    /\ UNCHANGED <<training_task, current_agent, tasks, cfgVars, envVars,
                   agtVars, twinVars, loopVars, gameVars>>

\* the end of the start_training branch: create_task, then send_json and
\* back to receive_json
CreateTraining(c) ==
    /\ Len(tasks) < MaxTasks
    /\ tasks' = Append(tasks, NewTask)
    /\ training_task' = Len(tasks) + 1
    /\ handler' = [handler EXCEPT ![c] = [pc |-> "recv", awaiting |-> NoTask]]
    /\ UNCHANGED <<current_agent, active_connections, cfgVars, envVars,
                   agtVars, twinVars, loopVars, bcastVars, gameVars>>

\* the cancel of a running task, common to the three commands: cancel(), then
\* await training_task
CancelAndAwait(c, pc) ==
    /\ tasks' = CancelTask(training_task)
    /\ handler' = [handler EXCEPT ![c] = [pc |-> pc, awaiting |-> training_task]]
    /\ UNCHANGED <<training_task, current_agent, active_connections, cfgVars,
                   envVars, agtVars, twinVars, loopVars, bcastVars, gameVars>>

\* a start_training message arrives
RecvStart(c) ==
    /\ handler[c].pc = "recv"
    /\ IF TaskRunning THEN CancelAndAwait(c, "start_await")
       ELSE CreateTraining(c)

\* await training_task returns in the start_training branch
ResumeStart(c) ==
    /\ handler[c].pc = "start_await"
    /\ tasks[handler[c].awaiting].pc = "done"
    /\ CreateTraining(c)

\* a stop_training message arrives
RecvStop(c) ==
    /\ handler[c].pc = "recv"
    /\ IF TaskRunning THEN CancelAndAwait(c, "stop_await")
       ELSE UNCHANGED vars

\* the stop_training branch without its await: the reply is sent at once
ResumeStopAtOnce(c) ==
    /\ handler[c].pc = "stop_await"
    /\ handler' = [handler EXCEPT ![c] = [pc |-> "recv", awaiting |-> NoTask]]
    /\ UNCHANGED <<training_task, current_agent, tasks, active_connections,
                   cfgVars, envVars, agtVars, twinVars, loopVars, bcastVars,
                   gameVars>>

\* await training_task returns in the stop_training branch: send_json
ResumeStop(c) ==
    /\ handler[c].pc = "stop_await"
    /\ tasks[handler[c].awaiting].pc = "done"
    /\ handler' = [handler EXCEPT ![c] = [pc |-> "recv", awaiting |-> NoTask]]
    /\ UNCHANGED <<training_task, current_agent, tasks, active_connections,
                   cfgVars, envVars, agtVars, twinVars, loopVars,
                   bcastVars, gameVars>>

\* the end of the reset branch: current_agent = None, then the broadcast
ResetAgent(c) ==
    /\ current_agent' = NoTask
    /\ handler' = [handler EXCEPT ![c] = [pc |-> "recv", awaiting |-> NoTask]]
    /\ UNCHANGED <<training_task, tasks, active_connections, cfgVars, envVars,
                   agtVars, twinVars, loopVars, bcastVars, gameVars>>

\* a reset message arrives
RecvReset(c) ==
    /\ handler[c].pc = "recv"
    /\ IF TaskRunning THEN CancelAndAwait(c, "reset_await")
       ELSE ResetAgent(c)

\* await training_task returns in the reset branch
ResumeReset(c) ==
    /\ handler[c].pc = "reset_await"
    /\ tasks[handler[c].awaiting].pc = "done"
    /\ ResetAgent(c)

\* what the event loop's next run of task t leaves of it.  A pending cancel
\* raises CancelledError at the await the task is suspended in: inside the try
\* it is caught and training_stopped is broadcast, inside an except block it
\* ends the task.  Without one the loop starts, ends (training_complete was
\* broadcast), or raises and the error is broadcast.
TaskNext(t) ==
    LET task == tasks[t]
    IN  IF task.must_cancel
        THEN IF task.pc = "running"
             THEN {[pc |-> "stopping", must_cancel |-> FALSE]}
             ELSE {[pc |-> "done", must_cancel |-> FALSE]}
        ELSE IF task.pc = "created"
             THEN {[task EXCEPT !.pc = "running"], [task EXCEPT !.pc = "failing"]}
        ELSE IF task.pc = "running"
             THEN {[task EXCEPT !.pc = "done"], [task EXCEPT !.pc = "failing"]}
        ELSE {[task EXCEPT !.pc = "done"]}

\* the event loop runs task t up to its next suspension point
RunTask(t) ==
    /\ t \in DOMAIN tasks
    /\ tasks[t].pc # "done"
    /\ \E next \in TaskNext(t) :
        /\ tasks' = [tasks EXCEPT ![t] = next]
        /\ current_agent' =
                IF tasks[t].pc = "created" /\ next.pc = "running"
                THEN t ELSE current_agent
    /\ UNCHANGED <<training_task, active_connections, handler, cfgVars,
                   envVars, agtVars, twinVars, loopVars, bcastVars, gameVars>>

----------------------------------------------------------------------------
(* The agent (src/gridworld/agent.py).  Q-values, rewards and the           *)
(* hyperparameters are real numbers in the source; the model keeps them as  *)
(* fractions <<numerator, denominator>> in lowest terms and computes with   *)
(* them exactly.  The rounding of float32 and float64 is left out.          *)

Abs(x) == IF x < 0 THEN -x ELSE x

RECURSIVE GCD(_, _)
GCD(a, b) == IF b = 0 THEN a ELSE GCD(b, a % b)

\* the number n / d, for d > 0, in lowest terms
Frac(n, d) ==
    LET g == GCD(Abs(n), d)
    IN  <<n \div g, d \div g>>

\* the whole number n
Whole(n) == <<n, 1>>

\* p + q
FAdd(p, q) ==
    LET m == (p[2] \div GCD(p[2], q[2])) * q[2]
    IN  Frac(p[1] * (m \div p[2]) + q[1] * (m \div q[2]), m)

\* p - q
FSub(p, q) == FAdd(p, <<-q[1], q[2]>>)

\* p * q
FMul(p, q) ==
    LET a == Frac(p[1], q[2])
        b == Frac(q[1], p[2])
    IN  <<a[1] * b[1], a[2] * b[2]>>

\* p < q and p <= q
FLess(p, q) == FSub(p, q)[1] < 0
FLeq(p, q) == FSub(p, q)[1] <= 0

\* max(p, q) of Python: q only when it is greater than p
FMax(p, q) == IF FLess(p, q) THEN q ELSE p

\* QLearningConfig(...); num_episodes is not read by the agent and is left out
QLearningConfig(lr, df, es, ee, ed) ==
    [learning_rate |-> lr, discount_factor |-> df, epsilon_start |-> es,
     epsilon_end |-> ee, epsilon_decay |-> ed]

\* QLearningConfig(): 0.1, 0.99, 1.0, 0.01, 0.995
DefaultQLearningConfig ==
    QLearningConfig(Frac(1, 10), Frac(99, 100), Whole(1), Frac(1, 100),
                    Frac(995, 1000))

\* the configuration training_loop builds from the payload's learning_rate,
\* discount_factor and epsilon
ServerQLearningConfig(lr, df, epsilon) ==
    QLearningConfig(lr, df, epsilon, Frac(1, 100), Frac(995, 1000))

\* np.zeros((ns, na)): rows and columns are indexed from 0
Zeros(ns, na) == [s \in 0..(ns - 1) |-> [a \in 0..(na - 1) |-> Whole(0)]]

\* an agent whose epsilon starts at epsilon_end
QLearningAgentEpsilonEnd(ns, na, c) ==
    [config |-> c, num_states |-> ns, num_actions |-> na,
     q_table |-> Zeros(ns, na), epsilon |-> c.epsilon_end]

\* QLearningAgent(num_states, num_actions, config)
QLearningAgent(ns, na, c) ==
    [config |-> c, num_states |-> ns, num_actions |-> na,
     q_table |-> Zeros(ns, na), epsilon |-> c.epsilon_start]

\* np.argmax over row[i..n-1], given the best index before i: a later entry
\* replaces the best one only when it is greater
RECURSIVE ArgmaxFrom(_, _, _, _)
ArgmaxFrom(row, i, best, n) ==
    IF i >= n THEN best
    ELSE ArgmaxFrom(row, i + 1, IF FLess(row[best], row[i]) THEN i ELSE best, n)

\* np.argmax(row): the first index of the maximum
argmax(row, n) == ArgmaxFrom(row, 1, 0, n)

\* np.max(row)
RowMax(row, n) == row[argmax(row, n)]

\* select_action that explores whatever training is
select_action_always_training(a, state_index, training, u, k) ==
    IF FLess(u, a.epsilon)
    THEN [val |-> k, explored |-> TRUE]
    ELSE [val |-> argmax(a.q_table[state_index], a.num_actions),
          explored |-> FALSE]

\* select_action that explores when the sample is at most epsilon
select_action_leq(a, state_index, training, u, k) ==
    IF training /\ FLeq(u, a.epsilon)
    THEN [val |-> k, explored |-> TRUE]
    ELSE [val |-> argmax(a.q_table[state_index], a.num_actions),
          explored |-> FALSE]

\* select_action(state_index, training), where u is what np.random.random()
\* gives and k what np.random.randint(num_actions) gives if they are called
select_action(a, state_index, training, u, k) ==
    IF training /\ FLess(u, a.epsilon)
    THEN [val |-> k, explored |-> TRUE]
    ELSE [val |-> argmax(a.q_table[state_index], a.num_actions),
          explored |-> FALSE]

\* learn without the discount factor
learn_undiscounted(a, state_index, action, reward, next_state_index, terminated) ==
    LET current_q == a.q_table[state_index][action]
        max_next_q == IF terminated THEN Whole(0)
                      ELSE RowMax(a.q_table[next_state_index], a.num_actions)
        td_target == FAdd(reward, max_next_q)
        td_error == FSub(td_target, current_q)
    IN  [agent |-> [a EXCEPT !.q_table[state_index][action] =
                        FAdd(@, FMul(a.config.learning_rate, td_error))],
         td_error |-> td_error]

\* learn that reads the next state's row whatever terminated is
learn_bootstrap_always(a, state_index, action, reward, next_state_index, terminated) ==
    LET current_q == a.q_table[state_index][action]
        max_next_q == RowMax(a.q_table[next_state_index], a.num_actions)
        td_target == FAdd(reward, FMul(a.config.discount_factor, max_next_q))
        td_error == FSub(td_target, current_q)
    IN  [agent |-> [a EXCEPT !.q_table[state_index][action] =
                        FAdd(@, FMul(a.config.learning_rate, td_error))],
         td_error |-> td_error]

\* learn(state_index, action, reward, next_state_index, terminated): the
\* agent it leaves and the td_error it returns
learn(a, state_index, action, reward, next_state_index, terminated) ==
    LET current_q == a.q_table[state_index][action]
        max_next_q == IF terminated THEN Whole(0)
                      ELSE RowMax(a.q_table[next_state_index], a.num_actions)
        td_target == FAdd(reward, FMul(a.config.discount_factor, max_next_q))
        td_error == FSub(td_target, current_q)
    IN  [agent |-> [a EXCEPT !.q_table[state_index][action] =
                        FAdd(@, FMul(a.config.learning_rate, td_error))],
         td_error |-> td_error]

\* decay_epsilon without the floor
decay_epsilon_unfloored(a) ==
    [a EXCEPT !.epsilon = FMul(a.epsilon, a.config.epsilon_decay)]

\* decay_epsilon(): epsilon = max(epsilon_end, epsilon * epsilon_decay)
decay_epsilon(a) ==
    [a EXCEPT !.epsilon = FMax(a.config.epsilon_end,
                               FMul(a.epsilon, a.config.epsilon_decay))]

\* no file at the path
NoFile == <<>>

\* save that writes the configured epsilon_start for epsilon
save_epsilon_start(a) ==
    [q_table |-> a.q_table, config |-> a.config,
     epsilon |-> a.config.epsilon_start,
     num_states |-> a.num_states, num_actions |-> a.num_actions]

\* save(filepath): the dict that is pickled
save(a) ==
    [q_table |-> a.q_table, config |-> a.config, epsilon |-> a.epsilon,
     num_states |-> a.num_states, num_actions |-> a.num_actions]

\* load that takes the table, config and epsilon and keeps its own counts
load_keeps_counts(a, save_dict) ==
    [a EXCEPT !.q_table = save_dict.q_table,
              !.config = save_dict.config,
              !.epsilon = save_dict.epsilon]

\* load(filepath), for the dict unpickled from an existing file
load(a, save_dict) ==
    [a EXCEPT !.q_table = save_dict.q_table,
              !.config = save_dict.config,
              !.epsilon = save_dict.epsilon,
              !.num_states = save_dict.num_states,
              !.num_actions = save_dict.num_actions]

\* load_from_file(filepath), for the dict unpickled from an existing file
load_from_file(save_dict) ==
    [QLearningAgent(save_dict.num_states, save_dict.num_actions,
                    save_dict.config)
        EXCEPT !.q_table = save_dict.q_table,
               !.epsilon = save_dict.epsilon]

\* the state indices and the action indices of agent a
AgentStates(a) == 0..(a.num_states - 1)
AgentActions(a) == 0..(a.num_actions - 1)

\* the row with the entries of seq, indexed from 0
RowOf(seq) == [i \in 0..(Len(seq) - 1) |-> seq[i + 1]]

\* (num_states, num_actions) of the agents that are constructed
AgentDims == {<<1, 2>>, <<2, 2>>}
\* the dimensions of the agents that learn and select
TableDims == <<2, 2>>

\* rows of Q-values: zeros, one leading entry, the row of
\* test_bellman_equation_correctness, and a tie
RowInputs ==
    {RowOf(<<Whole(0), Whole(0)>>), RowOf(<<Whole(2), Whole(0)>>),
     RowOf(<<Whole(3), Whole(5)>>), RowOf(<<Whole(5), Whole(5)>>)}

\* tables as learn calls, or the assignments of the tests, leave them
TableInputs == [0..(TableDims[1] - 1) -> RowInputs]

\* the rewards handed to learn: 4.0, 10.0 and the step penalty -0.1
RewardInputs == {Whole(4), Whole(10), Frac(-1, 10)}

\* the values np.random.random() may give: 0, 0.005, 0.5, 0.99
UInputs == {Whole(0), Frac(1, 200), Frac(1, 2), Frac(99, 100)}

\* the epsilon values of start_training payloads: 0, 0.01, 0.5 and 1.0
PayloadEpsilons == {Whole(0), Frac(1, 100), Frac(1, 2), Whole(1)}

\* the configurations of the learning tests: (0.5, 0.9), (0.1, 0.9), (1.0, 0.0)
LearnConfigs ==
    {[DefaultQLearningConfig EXCEPT !.learning_rate = Frac(1, 2),
                                    !.discount_factor = Frac(9, 10)],
     [DefaultQLearningConfig EXCEPT !.learning_rate = Frac(1, 10),
                                    !.discount_factor = Frac(9, 10)],
     [DefaultQLearningConfig EXCEPT !.learning_rate = Whole(1),
                                    !.discount_factor = Whole(0)]}

\* QLearningConfig(epsilon_start=1.0, epsilon_end=0.01, epsilon_decay=0.9)
DecayTestConfig == [DefaultQLearningConfig EXCEPT !.epsilon_decay = Frac(9, 10)]

\* the configurations of the agents that explore: the test's, and the ones
\* training_loop builds from a payload with the default learning_rate and
\* discount_factor
ExploreConfigs ==
    {DecayTestConfig}
        \cup {ServerQLearningConfig(DefaultQLearningConfig.learning_rate,
                                    DefaultQLearningConfig.discount_factor, e) :
                e \in PayloadEpsilons}

\* the configurations of the agents that are saved and loaded
PersistConfigs ==
    {DecayTestConfig,
     [DefaultQLearningConfig EXCEPT !.learning_rate = Frac(1, 2),
                                    !.discount_factor = Frac(9, 10)]}

RECURSIVE ArgmaxLastFrom(_, _, _, _)
\* the last index of the greatest entry of row[0..n-1]
ArgmaxLastFrom(row, i, best, n) ==
    IF i >= n THEN best
    ELSE ArgmaxLastFrom(row, i + 1,
                        IF FLeq(row[best], row[i]) THEN i ELSE best, n)

\* get_q_values without the copy: a view of the row is returned
get_q_values_view(a, state_index) ==
    [val |-> a.q_table[state_index], shares |-> TRUE]

\* q_table[state_index].copy(): the values of the row in an array of their
\* own; shares tells whether writes to the returned array reach the table
get_q_values(a, state_index) ==
    [val |-> a.q_table[state_index], shares |-> FALSE]

\* get_policy taking the last greatest entry of each row
get_policy_last(a) ==
    [s \in 0..(a.num_states - 1) |->
        ArgmaxLastFrom(a.q_table[s], 1, 0, a.num_actions)]

\* np.argmax(q_table, axis=1): for each row the first index of its maximum
get_policy(a) ==
    [s \in 0..(a.num_states - 1) |-> argmax(a.q_table[s], a.num_actions)]

\* float(np.max(q_table[state_index]))
get_state_value(a, state_index) == RowMax(a.q_table[state_index], a.num_actions)

\* reset_q_table that clears the first row only
reset_q_table_first_row(a) ==
    [a EXCEPT !.q_table[0] = Zeros(a.num_states, a.num_actions)[0],
              !.epsilon = a.config.epsilon_start]

\* q_table = np.zeros((num_states, num_actions)), epsilon = epsilon_start
reset_q_table(a) ==
    [a EXCEPT !.q_table = Zeros(a.num_states, a.num_actions),
              !.epsilon = a.config.epsilon_start]

\* nothing called on the agent yet
NoAgentCall == [op |-> "none", err |-> "ok"]

\* agent = QLearningAgent(num_states, num_actions, config)
NewAgent(d, c) ==
    /\ agent' = QLearningAgent(d[1], d[2], c)
    /\ aret' = [op |-> "__init__", err |-> "ok",
                num_states |-> d[1], num_actions |-> d[2], config |-> c]
    /\ UNCHANGED <<file, saver, learn_calls, decay_calls, cfgVars, envVars,
                   srvVars, twinVars, loopVars, bcastVars, gameVars>>

SelectAction(state_index, training, u, k) ==
    LET r == select_action(agent, state_index, training, u, k)
    IN  /\ state_index \in AgentStates(agent)
        /\ k \in AgentActions(agent)
        /\ aret' = [op |-> "select_action", err |-> "ok",
                    state_index |-> state_index, training |-> training,
                    u |-> u, k |-> k, val |-> r.val, explored |-> r.explored]
        /\ UNCHANGED <<agent, file, saver, learn_calls, decay_calls, cfgVars,
                       envVars, srvVars, twinVars, loopVars,
                       bcastVars, gameVars>>

Learn(state_index, action, reward, next_state_index, terminated) ==
    LET r == learn(agent, state_index, action, reward, next_state_index,
                   terminated)
    IN  /\ learn_calls < MaxLearns
        /\ state_index \in AgentStates(agent)
        /\ next_state_index \in AgentStates(agent)
        /\ action \in AgentActions(agent)
        /\ agent' = r.agent
        /\ aret' = [op |-> "learn", err |-> "ok",
                    state_index |-> state_index, action |-> action,
                    reward |-> reward, next_state_index |-> next_state_index,
                    terminated |-> terminated, val |-> r.td_error]
        /\ learn_calls' = learn_calls + 1
        /\ UNCHANGED <<file, saver, decay_calls, cfgVars, envVars, srvVars,
                   twinVars, loopVars, bcastVars, gameVars>>

DecayEpsilon ==
    /\ decay_calls < MaxDecays
    /\ agent' = decay_epsilon(agent)
    /\ aret' = [op |-> "decay_epsilon", err |-> "ok"]
    /\ decay_calls' = decay_calls + 1
    /\ UNCHANGED <<file, saver, learn_calls, cfgVars, envVars, srvVars,
                   twinVars, loopVars, bcastVars, gameVars>>

Save ==
    /\ file' = <<save(agent)>>
    /\ saver' = <<agent>>
    /\ aret' = [op |-> "save", err |-> "ok"]
    /\ UNCHANGED <<agent, learn_calls, decay_calls, cfgVars, envVars, srvVars,
                   twinVars, loopVars, bcastVars, gameVars>>

\* load(filepath): open() raises FileNotFoundError when nothing was saved
Load ==
    /\ IF file = NoFile
       THEN /\ aret' = [op |-> "load", err |-> "FileNotFoundError"]
            /\ UNCHANGED agent
       ELSE /\ agent' = load(agent, file[1])
            /\ aret' = [op |-> "load", err |-> "ok",
                        num_states |-> agent.num_states,
                        num_actions |-> agent.num_actions]
    /\ UNCHANGED <<file, saver, learn_calls, decay_calls, cfgVars, envVars,
                   srvVars, twinVars, loopVars, bcastVars, gameVars>>

\* agent = QLearningAgent.load_from_file(filepath)
LoadFromFile ==
    /\ IF file = NoFile
       THEN /\ aret' = [op |-> "load_from_file", err |-> "FileNotFoundError"]
            /\ UNCHANGED agent
       ELSE /\ agent' = load_from_file(file[1])
            /\ aret' = [op |-> "load_from_file", err |-> "ok"]
    /\ UNCHANGED <<file, saver, learn_calls, decay_calls, cfgVars, envVars,
                   srvVars, twinVars, loopVars, bcastVars, gameVars>>

\* agent.get_q_values(state_index)
GetQValues(state_index) ==
    LET r == get_q_values(agent, state_index)
    IN  /\ state_index \in AgentStates(agent)
        /\ aret' = [op |-> "get_q_values", err |-> "ok",
                    state_index |-> state_index, val |-> r.val,
                    shares |-> r.shares]
        /\ UNCHANGED <<agent, file, saver, learn_calls, decay_calls, cfgVars,
                       envVars, srvVars, twinVars, loopVars,
                       bcastVars, gameVars>>

\* the caller assigns v to entry k of the array get_q_values just returned
WriteReturned(k, v) ==
    /\ aret.op = "get_q_values"
    /\ k \in DOMAIN aret.val
    /\ aret.val[k] # v
    /\ aret' = [aret EXCEPT !.op = "returned_write", !.val[k] = v]
    /\ agent' = IF aret.shares
                THEN [agent EXCEPT !.q_table[aret.state_index][k] = v]
                ELSE agent
    /\ UNCHANGED <<file, saver, learn_calls, decay_calls, cfgVars, envVars,
                   srvVars, twinVars, loopVars, bcastVars, gameVars>>

\* agent.get_policy()
GetPolicy ==
    /\ aret' = [op |-> "get_policy", err |-> "ok", val |-> get_policy(agent)]
    /\ UNCHANGED <<agent, file, saver, learn_calls, decay_calls, cfgVars,
                   envVars, srvVars, twinVars, loopVars, bcastVars, gameVars>>

\* agent.get_state_value(state_index)
GetStateValue(state_index) ==
    /\ state_index \in AgentStates(agent)
    /\ aret' = [op |-> "get_state_value", err |-> "ok",
                state_index |-> state_index,
                val |-> get_state_value(agent, state_index)]
    /\ UNCHANGED <<agent, file, saver, learn_calls, decay_calls, cfgVars,
                   envVars, srvVars, twinVars, loopVars, bcastVars, gameVars>>

\* agent.reset_q_table()
ResetQTable ==
    /\ agent' = reset_q_table(agent)
    /\ aret' = [op |-> "reset_q_table", err |-> "ok"]
    /\ UNCHANGED <<file, saver, learn_calls, decay_calls, cfgVars, envVars,
                   srvVars, twinVars, loopVars, bcastVars, gameVars>>

----------------------------------------------------------------------------
(* Two environments side by side.  reset(seed) hands the seed to              *)
(* gymnasium's Env.reset, which seeds self.np_random with it; np_random is   *)
(* kept here as NoSeed (never seeded) or <<seed>>.                           *)

\* reset() without a seed, np_random never seeded
NoSeed == <<>>

\* the seeds handed to reset: none, 0 and 42
SeedInputs == {NoSeed, <<0>>, <<42>>}

\* GridWorldEnv(config)
NewEnv ==
    [agent_pos |-> None, step_count |-> 0, np_random |-> NoSeed,
     ret |-> NoCall]

\* reset(seed) on environment e
SeededReset(e, seed, c) ==
    LET o == ResetOutcome(c)
    IN  [agent_pos |-> o.agent_pos, step_count |-> o.step_count,
         np_random |-> IF seed = NoSeed THEN e.np_random ELSE seed,
         ret |-> o.ret]

\* step(action) that turns the action when np_random was seeded with 42
SeededStepSlips(e, action, c) ==
    LET turned == IF e.np_random = <<42>> /\ action \in Actions
                  THEN (action + 1) % (RIGHT + 1) ELSE action
        o == StepOutcome(e.agent_pos, e.step_count, turned, c)
    IN  [agent_pos |-> o.agent_pos, step_count |-> o.step_count,
         np_random |-> e.np_random, ret |-> o.ret]

\* step(action) on environment e: np_random is neither read nor advanced
SeededStep(e, action, c) ==
    LET o == StepOutcome(e.agent_pos, e.step_count, action, c)
    IN  [agent_pos |-> o.agent_pos, step_count |-> o.step_count,
         np_random |-> e.np_random, ret |-> o.ret]

\* both environments are reset, each with its own seed
TwinReset(seed1, seed2) ==
    /\ twin' = <<SeededReset(twin[1], seed1, cfg),
                 SeededReset(twin[2], seed2, cfg)>>
    /\ UNCHANGED <<envVars, cfgVars, srvVars, agtVars, loopVars,
                   bcastVars, gameVars>>

\* both environments are given the same action
TwinStep(action) ==
    LET e1 == SeededStep(twin[1], action, cfg)
        e2 == SeededStep(twin[2], action, cfg)
    IN  /\ e1.ret.err = "ok" => twin[1].step_count < StepCap
        /\ e2.ret.err = "ok" => twin[2].step_count < StepCap
        /\ twin' = <<e1, e2>>
        /\ UNCHANGED <<envVars, cfgVars, srvVars, agtVars, loopVars,
                       bcastVars, gameVars>>

----------------------------------------------------------------------------
(* One training_loop coroutine, statement by statement (server.py).  The    *)
(* coroutine gives up control only at an await; pc names the await it is    *)
(* suspended in, or the statement it runs next.  steps records what         *)
(* env.step did, updates what agent.update was handed, in the order of the  *)
(* calls.                                                                   *)

\* max_steps in training_loop
LoopMaxSteps == 100

\* the awaits of training_loop
Suspended ==
    {"episode_broadcast", "step_broadcast", "sleep", "complete_broadcast",
     "stopped", "failing"}

\* asyncio.create_task(training_loop(..., num_episodes)): nothing has run
NewLoop(n) ==
    [pc |-> "created", must_cancel |-> FALSE, num_episodes |-> n,
     episode |-> 0, step |-> 0, done |-> FALSE, terminated |-> FALSE,
     pos |-> None, count |-> 0,
     state |-> None, action |-> UP, reward |-> 0, next_state |-> None,
     steps |-> <<>>, updates |-> <<>>]

\* the head of the for loop: the next episode is reset and announced, or
\* training_complete is broadcast
LoopEnterEpisode(l) ==
    IF l.episode < l.num_episodes
    THEN LET o == ResetOutcome(ServerGridConfig)
         IN  [l EXCEPT !.pos = o.agent_pos, !.count = o.step_count,
                       !.state = o.ret.obs, !.step = 0, !.done = FALSE,
                       !.pc = "episode_broadcast"]
    ELSE [l EXCEPT !.pc = "complete_broadcast"]

\* the test of the while loop; when it fails, decay_epsilon and sleep(0)
LoopWhile(l) ==
    IF ~l.done /\ l.step < LoopMaxSteps
    THEN [l EXCEPT !.pc = "select"]
    ELSE [l EXCEPT !.pc = "sleep"]

\* action = agent.select_action(state)
LoopSelected(l, a) == [l EXCEPT !.action = a, !.pc = "step"]

\* env.step(action) followed by the broadcast: the update is left out
LoopSteppedThenBroadcast(l) ==
    LET o == StepOutcome(l.pos, l.count, l.action, ServerGridConfig)
        d == o.ret.terminated \/ o.ret.truncated
    IN  [l EXCEPT !.pos = o.agent_pos, !.count = o.step_count,
                  !.reward = o.ret.reward, !.next_state = o.ret.obs,
                  !.terminated = o.ret.terminated, !.done = d,
                  !.steps = Append(@, <<l.pos, l.action, o.ret.reward,
                                        o.ret.obs, d>>),
                  !.pc = "step_broadcast"]

\* next_obs, reward, terminated, truncated, info = env.step(action), then
\* next_state and done
LoopStepped(l) ==
    LET o == StepOutcome(l.pos, l.count, l.action, ServerGridConfig)
        d == o.ret.terminated \/ o.ret.truncated
    IN  [l EXCEPT !.pos = o.agent_pos, !.count = o.step_count,
                  !.reward = o.ret.reward, !.next_state = o.ret.obs,
                  !.terminated = o.ret.terminated, !.done = d,
                  !.steps = Append(@, <<l.pos, l.action, o.ret.reward,
                                        o.ret.obs, d>>),
                  !.pc = "update"]

\* agent.update(state, action, reward, next_state, done), state = next_state,
\* step += 1, then the broadcast when 100 ms have elapsed, else the loop test
LoopUpdated(l, elapsed) ==
    LET u == [l EXCEPT !.updates = Append(@, <<l.state, l.action, l.reward,
                                               l.next_state, l.done>>),
                       !.state = l.next_state,
                       !.step = @ + 1]
    IN  IF elapsed THEN [u EXCEPT !.pc = "step_broadcast"] ELSE LoopWhile(u)

\* the coroutine is resumed in the await it is suspended in.  A pending
\* cancel raises CancelledError there: inside the try it is caught and
\* training_stopped is broadcast; in an except block, or before the first
\* run, it ends the task.
LoopResumed(l) ==
    IF l.must_cancel
    THEN IF l.pc \in {"created", "stopped", "failing"}
         THEN {[l EXCEPT !.pc = "done", !.must_cancel = FALSE]}
         ELSE {[l EXCEPT !.pc = "stopped", !.must_cancel = FALSE]}
    ELSE IF l.pc = "created"
         THEN {LoopEnterEpisode(l), [l EXCEPT !.pc = "failing"]}
    ELSE IF l.pc \in {"episode_broadcast", "step_broadcast"}
         THEN {LoopWhile(l)}
    ELSE IF l.pc = "sleep"
         THEN {LoopEnterEpisode([l EXCEPT !.episode = @ + 1])}
    ELSE {[l EXCEPT !.pc = "done"]}

\* the event loop runs the coroutine from where it is suspended
LoopResume ==
    /\ loop.pc \in Suspended \cup {"created"}
    /\ \E next \in LoopResumed(loop) : loop' = next
    /\ UNCHANGED <<envVars, cfgVars, srvVars, agtVars, twinVars,
                   bcastVars, gameVars>>

\* the while body selects an action
LoopSelect(a) ==
    /\ loop.pc = "select"
    /\ Len(loop.steps) < MaxLoopSteps
    /\ loop' = LoopSelected(loop, a)
    /\ UNCHANGED <<envVars, cfgVars, srvVars, agtVars, twinVars,
                   bcastVars, gameVars>>

\* the while body steps the environment
LoopStep ==
    /\ loop.pc = "step"
    /\ loop' = LoopStepped(loop)
    /\ UNCHANGED <<envVars, cfgVars, srvVars, agtVars, twinVars,
                   bcastVars, gameVars>>

\* the while body updates the agent and reaches the broadcast test
LoopUpdate(elapsed) ==
    /\ loop.pc = "update"
    /\ loop' = LoopUpdated(loop, elapsed)
    /\ UNCHANGED <<envVars, cfgVars, srvVars, agtVars, twinVars,
                   bcastVars, gameVars>>

\* a websocket handler runs training_task.cancel(): handlers run on the same
\* event loop, so only while the coroutine is suspended
LoopCancel ==
    /\ loop.pc \in Suspended \cup {"created"}
    /\ ~loop.must_cancel
    /\ loop' = [loop EXCEPT !.must_cancel = TRUE]
    /\ UNCHANGED <<envVars, cfgVars, srvVars, agtVars, twinVars,
                   bcastVars, gameVars>>

----------------------------------------------------------------------------
(* One call of ConnectionManager.broadcast (server.py).  The for statement  *)
(* walks active_connections with a list iterator, which keeps an index into *)
(* the list itself, and the coroutine is suspended in each send_json.       *)

\* no broadcast has been called
NewBroadcast ==
    [pc |-> "idle", i |-> 0, conn |-> 0, stayed |-> {},
     got |-> [c \in Clients |-> 0]]

\* for connection in self.active_connections: the iterator hands out
\* list[i] and moves on, or the loop ends; await connection.send_json(message)
BroadcastNext(b, list) ==
    IF b.i < Len(list)
    THEN LET c == list[b.i + 1]
         IN  [b EXCEPT !.pc = "sending", !.conn = c, !.i = @ + 1,
                       !.got[c] = @ + 1]
    ELSE [b EXCEPT !.pc = "done", !.conn = 0]

\* manager.broadcast(message) is called and runs up to its first send
BroadcastStart ==
    /\ bcast.pc \in {"idle", "done"}
    /\ bcast' = BroadcastNext(
                    [NewBroadcast EXCEPT
                        !.stayed = {active_connections[k] :
                                        k \in 1..Len(active_connections)}],
                    active_connections)
    /\ UNCHANGED <<srvVars, cfgVars, envVars, agtVars, twinVars, loopVars,
                   gameVars>>

\* the send returns (or raises RuntimeError, which is passed over) and the
\* for loop goes on
BroadcastResume ==
    /\ bcast.pc = "sending"
    /\ bcast' = BroadcastNext(bcast, active_connections)
    /\ UNCHANGED <<srvVars, cfgVars, envVars, agtVars, twinVars, loopVars,
                   gameVars>>

----------------------------------------------------------------------------
(* The Tk game (play_tkinter.py): one environment, its renderer and the     *)
(* game_step callback that Tk runs every 10 ms.  Key presses are events of  *)
(* the same Tk loop: they run between two game steps, or inside render's    *)
(* root.update(), which game_step calls last.                               *)

\* self.max_trail_length
max_trail_length == 50

\* what the keyboard sends: event.keysym.lower()
Keys ==
    {"up", "w", "down", "s", "left", "a", "right", "d", "r", "q", "escape",
     "x"}

\* action_map.get(key) of _on_key_press; "none" stands for None
KeyAction(key) ==
    IF key \in {"up", "w"} THEN "up"
    ELSE IF key \in {"down", "s"} THEN "down"
    ELSE IF key \in {"left", "a"} THEN "left"
    ELSE IF key \in {"right", "d"} THEN "right"
    ELSE IF key = "r" THEN "restart"
    ELSE IF key \in {"q", "escape"} THEN "quit"
    ELSE "none"

\* action_map of game_step: the environment's action of a movement
MoveAction(action_str) ==
    IF action_str = "up" THEN UP
    ELSE IF action_str = "down" THEN DOWN
    ELSE IF action_str = "left" THEN LEFT
    ELSE RIGHT

\* render's trail update: the agent's cell is appended unless it is the
\* last one already, and the oldest is dropped beyond max_trail_length
RenderTrail(trail, pos) ==
    IF pos = None THEN trail
    ELSE IF trail # <<>> /\ trail[Len(trail)] = pos THEN trail
    ELSE LET t == Append(trail, pos)
         IN  IF Len(t) > max_trail_length THEN Tail(t) ELSE t

\* the game-over flag that ends the game at a goal or an obstacle only
GameOverAfterTerminatedOnly(terminated, truncated) == terminated

\* game_over[0] after a movement: set when the step returned terminated or
\* truncated, and left FALSE otherwise
GameOverAfter(terminated, truncated) ==
    IF terminated THEN TRUE ELSE IF truncated THEN TRUE ELSE FALSE

\* play_gridworld_tkinter up to its first game_step: env.reset() and the
\* initial render.  keys and used are history: the key presses so far and
\* the game steps that applied one.
NewGame(c) ==
    [running |-> TRUE, scheduled |-> TRUE, current_action |-> "none",
     game_over |-> FALSE, episode |-> 1,
     pos |-> c.start_pos, count |-> 0,
     terminated |-> FALSE, truncated |-> FALSE,
     trail |-> RenderTrail(<<>>, c.start_pos),
     keys |-> 0, used |-> 0]

\* the restart branch of game_step
GameRestarted(g, c) ==
    LET o == ResetOutcome(c)
    IN  [g EXCEPT !.episode = @ + 1,
                  !.pos = o.agent_pos, !.count = o.step_count,
                  !.terminated = FALSE, !.truncated = FALSE,
                  !.game_over = FALSE,
                  !.trail = RenderTrail(<<>>, o.agent_pos),
                  !.used = @ + 1]

\* the movement branch of game_step
GameMoved(g, action_str, c) ==
    LET o == StepOutcome(g.pos, g.count, MoveAction(action_str), c)
    IN  [g EXCEPT !.pos = o.agent_pos, !.count = o.step_count,
                  !.terminated = o.ret.terminated,
                  !.truncated = o.ret.truncated,
                  !.game_over = GameOverAfter(o.ret.terminated,
                                              o.ret.truncated),
                  !.trail = RenderTrail(g.trail, o.agent_pos),
                  !.used = @ + 1]

\* game_step(): get_action() takes the pending action and clears it
game_step(g, c) ==
    IF ~g.running THEN [g EXCEPT !.scheduled = FALSE]
    ELSE LET action_str == g.current_action
             h == [g EXCEPT !.current_action = "none"]
         IN  IF action_str = "quit"
             THEN [h EXCEPT !.running = FALSE, !.scheduled = FALSE]
             ELSE IF action_str = "restart" THEN GameRestarted(h, c)
             ELSE IF action_str # "none" /\ ~h.game_over
                  THEN GameMoved(h, action_str, c)
             ELSE h

\* Tk runs the scheduled game_step
GameStep ==
    /\ game.scheduled
    /\ game' = game_step(game, cfg)
    /\ UNCHANGED <<envVars, cfgVars, srvVars, agtVars, twinVars, loopVars,
                   bcastVars>>

\* _on_key_press(event)
KeyPress(key) ==
    /\ game.running
    /\ game.keys < MaxKeys
    /\ game' = [game EXCEPT !.current_action = KeyAction(key),
                            !.keys = @ + 1]
    /\ UNCHANGED <<envVars, cfgVars, srvVars, agtVars, twinVars, loopVars,
                   bcastVars>>

\* _on_close(): the window is closed
CloseWindow ==
    /\ game.running
    /\ game' = [game EXCEPT !.running = FALSE]
    /\ UNCHANGED <<envVars, cfgVars, srvVars, agtVars, twinVars, loopVars,
                   bcastVars>>

----------------------------------------------------------------------------
(* The environment and the agent in one training loop, as in               *)
(* test_integration_with_gridworld (tests/test_agent.py): the agent is      *)
(* built with the environment's num_states and num_actions, observations    *)
(* go through get_state_index, and the selected action goes to step.        *)

\* the hyperparameters of the joined loop: half of the selections explore
TrainConfig ==
    QLearningConfig(Frac(1, 2), Frac(9, 10), Frac(1, 2), Frac(1, 100),
                    Frac(995, 1000))

\* agent = QLearningAgent(num_states=env.num_states,
\*                        num_actions=env.num_actions)
TrainAgent(c) == QLearningAgent(num_states(c), num_actions(c), TrainConfig)

\* one iteration: select_action, env.step, get_state_index, learn.  The
\* first call that raises ends it; err names what was raised.
train_step(a, state_index, pos, count, c, u, k) ==
    LET env0 == [agent_pos |-> pos, step_count |-> count,
                 ret |-> Raised("step", "not called")]
        failed(err, act, e) ==
            [agent |-> a, env |-> e,
             aret |-> [op |-> "train_step", err |-> err,
                       state_index |-> state_index, action |-> act,
                       next_state_index |-> state_index]]
    IN  IF state_index \notin AgentStates(a)
        THEN failed("IndexError", 0, env0)
        ELSE LET action == select_action(a, state_index, TRUE, u, k).val
                 o == StepOutcome(pos, count, action, c)
             IN  IF o.ret.err # "ok" THEN failed(o.ret.err, action, o)
                 ELSE LET n == get_state_index(o.ret.obs, o.agent_pos, c).val
                      IN  IF n \notin AgentStates(a)
                                \/ action \notin AgentActions(a)
                          THEN failed("IndexError", action, o)
                          ELSE [agent |-> learn(a, state_index, action,
                                                Frac(o.ret.reward, 10), n,
                                                o.ret.terminated).agent,
                                env |-> o,
                                aret |-> [op |-> "train_step", err |-> "ok",
                                          state_index |-> state_index,
                                          action |-> action,
                                          next_state_index |-> n]]

\* obs, _ = env.reset(); state_index = env.get_state_index(obs)
TrainReset ==
    LET o == ResetOutcome(cfg)
    IN  /\ aret.op = "none"
            \/ (aret.op = "train_step" /\ (ret.terminated \/ ret.truncated))
        /\ aret.err = "ok"
        /\ agent_pos' = o.agent_pos
        /\ step_count' = o.step_count
        /\ ret' = o.ret
        /\ accepted' = 0
        /\ prev' = Standing(ret)
        /\ aret' = [op |-> "train_reset", err |-> "ok",
                    state_index |-> 0, action |-> 0,
                    next_state_index |->
                        get_state_index(o.ret.obs, o.agent_pos, cfg).val]
        /\ UNCHANGED <<cfg, agent, file, saver, learn_calls, decay_calls,
                       cfgVars, srvVars, twinVars, loopVars, bcastVars,
                       gameVars>>

\* one iteration of the while loop, until a step returns terminated or
\* truncated; u is the sample of np.random.random() and k the one of randint
TrainStep(u, k) ==
    LET r == train_step(agent, aret.next_state_index, agent_pos, step_count,
                        cfg, u, k)
    IN  /\ aret.op \in {"train_reset", "train_step"}
        /\ aret.err = "ok"
        /\ ~(ret.terminated \/ ret.truncated)
        /\ learn_calls < MaxTrainSteps
        /\ agent' = r.agent
        /\ agent_pos' = r.env.agent_pos
        /\ step_count' = r.env.step_count
        /\ ret' = r.env.ret
        /\ accepted' = IF r.env.ret.err = "ok" THEN accepted + 1 ELSE accepted
        /\ prev' = "none"
        /\ aret' = r.aret
        /\ learn_calls' = learn_calls + 1
        /\ UNCHANGED <<cfg, file, saver, decay_calls, cfgVars, srvVars,
                       twinVars, loopVars, bcastVars, gameVars>>

----------------------------------------------------------------------------
(* Specifications *)

\* the server before any client connected
ServerIdle ==
    /\ training_task = NoTask
    /\ current_agent = NoTask
    /\ tasks = <<>>
    /\ active_connections = <<>>
    /\ handler = [c \in Clients |-> [pc |-> "closed", awaiting |-> NoTask]]

\* no GridWorldConfig under construction
NoConstruction ==
    /\ args = [grid_size |-> 1, start_pos |-> <<0, 0>>, goal_pos |-> <<0, 0>>,
               obstacles |-> NoObstacles]
    /\ built = [status |-> "unbuilt", config |-> ConfigOf(args, MaxSteps)]

\* an environment that was just constructed, over any valid configuration
EnvInit ==
    /\ cfg \in ValidConfigs
    /\ agent_pos = None
    /\ step_count = 0
    /\ ret = NoCall
    /\ accepted = 0
    /\ prev = "none"

\* an agent that was just constructed with dimensions d and configuration c
AgentFresh(d, c) ==
    /\ agent = QLearningAgent(d[1], d[2], c)
    /\ aret = NoAgentCall
    /\ file = NoFile
    /\ saver = NoFile
    /\ learn_calls = 0
    /\ decay_calls = 0

\* an agent the other specifications leave alone
AgentIdle == AgentFresh(TableDims, DefaultQLearningConfig)

\* two environments that were just constructed
TwinIdle == twin = <<NewEnv, NewEnv>>

\* a training task that has not run yet
LoopIdle == loop = NewLoop(MaxEpisodes)

\* no broadcast has been called
BcastIdle == bcast = NewBroadcast

\* a game on the server's grid that was just opened
GameIdle == game = NewGame(ServerGridConfig)

\* what the specifications of other parts leave alone
OthersIdle == TwinIdle /\ LoopIdle /\ BcastIdle /\ GameIdle

Init == EnvInit /\ NoConstruction /\ ServerIdle /\ AgentIdle /\ OthersIdle

Next ==
    \/ Reset
    \/ \E a \in ActionInputs : Step(a)

Spec == Init /\ [][Next]_vars

\* the index conversions of an environment, before and after its reset
NextIndex ==
    \/ Reset
    \/ \E p \in PositionInputs : GetStateIndex(p)
    \/ \E i \in IndexInputs(cfg) : GetPositionFromIndex(i)

\* the conversions read grid_size and agent_pos only: the obstacles are left out
InitIndex == Init /\ cfg.obstacles = {}

SpecIndex == InitIndex /\ [][NextIndex]_vars

\* the read-only methods of an environment between its resets and steps
NextRead ==
    \/ Reset
    \/ \E a \in Actions : Step(a)
    \/ Render
    \/ GetStateIndex(None)
    \/ \E i \in {0, num_states(cfg) - 1} : GetPositionFromIndex(i)
    \/ NumStates
    \/ NumActions

\* environments that start in the corner and have the larger step budget
InitRead == Init /\ cfg.start_pos = <<0, 0>> /\ cfg.max_steps = MaxSteps

SpecRead == InitRead /\ [][NextRead]_vars

\* two environments of one configuration, reset with any seeds and stepped
\* with the same actions
InitTwin ==
    /\ cfg \in ValidConfigs
    /\ cfg.start_pos = <<0, 0>>
    /\ cfg.max_steps = MaxSteps
    /\ agent_pos = None
    /\ step_count = 0
    /\ ret = NoCall
    /\ accepted = 0
    /\ prev = "none"
    /\ TwinIdle
    /\ NoConstruction /\ ServerIdle /\ AgentIdle /\ LoopIdle
    /\ BcastIdle /\ GameIdle

NextTwin ==
    \/ \E seed1, seed2 \in SeedInputs : TwinReset(seed1, seed2)
    \/ \E a \in ActionInputs : TwinStep(a)

SpecTwin == InitTwin /\ [][NextTwin]_vars

\* an environment the server specification leaves alone
EnvIdle ==
    /\ cfg = ServerGridConfig
    /\ agent_pos = None
    /\ step_count = 0
    /\ ret = NoCall
    /\ accepted = 0
    /\ prev = "none"

InitServer ==
    ServerIdle /\ NoConstruction /\ EnvIdle /\ AgentIdle /\ OthersIdle

NextServer ==
    \E c \in Clients :
        \/ Connect(c)
        \/ Disconnect(c)
        \/ RecvStart(c)
        \/ ResumeStart(c)
        \/ RecvStop(c)
        \/ ResumeStop(c)
        \/ RecvReset(c)
        \/ ResumeReset(c)
        \/ \E t \in 1..MaxTasks : RunTask(t)

SpecServer == InitServer /\ [][NextServer]_vars

\* the construction of a configuration from any arguments
InitConfig ==
    /\ args \in RawArgs
    /\ built = [status |-> "unbuilt", config |-> ConfigOf(args, MaxSteps)]
    /\ cfg = ConfigOf(args, MaxSteps)
    /\ agent_pos = None
    /\ step_count = 0
    /\ ret = NoCall
    /\ accepted = 0
    /\ prev = "none"
    /\ ServerIdle
    /\ AgentIdle
    /\ OthersIdle

NextConfig == Construct

SpecConfig == InitConfig /\ [][NextConfig]_vars

\* an agent whose table holds any of TableInputs, under the configurations of
\* the learning tests
InitLearn ==
    /\ \E c \in LearnConfigs, t \in TableInputs :
            agent = [QLearningAgent(TableDims[1], TableDims[2], c)
                        EXCEPT !.q_table = t]
    /\ aret = NoAgentCall
    /\ file = NoFile
    /\ saver = NoFile
    /\ learn_calls = 0
    /\ decay_calls = 0
    /\ ServerIdle /\ NoConstruction /\ EnvIdle /\ OthersIdle

NextLearn ==
    \E s \in AgentStates(agent), a \in AgentActions(agent), r \in RewardInputs,
       n \in AgentStates(agent), t \in BOOLEAN :
        Learn(s, a, r, n, t)

SpecLearn == InitLearn /\ [][NextLearn]_vars

\* an agent whose table holds any of TableInputs, under the configurations of
\* the decay test and of the server
InitSelect ==
    /\ \E c \in ExploreConfigs, t \in TableInputs :
            agent = [QLearningAgent(TableDims[1], TableDims[2], c)
                        EXCEPT !.q_table = t]
    /\ aret = NoAgentCall
    /\ file = NoFile
    /\ saver = NoFile
    /\ learn_calls = 0
    /\ decay_calls = 0
    /\ ServerIdle /\ NoConstruction /\ EnvIdle /\ OthersIdle

NextSelect ==
    \/ \E s \in AgentStates(agent), training \in BOOLEAN, u \in UInputs,
          k \in AgentActions(agent) :
            SelectAction(s, training, u, k)
    \/ DecayEpsilon
    \/ GetPolicy

SpecSelect == InitSelect /\ [][NextSelect]_vars

\* agents that are constructed, trained, saved and loaded
InitPersist ==
    /\ \E d \in AgentDims, c \in PersistConfigs : AgentFresh(d, c)
    /\ ServerIdle /\ NoConstruction /\ EnvIdle /\ OthersIdle

NextPersist ==
    \/ \E d \in AgentDims, c \in PersistConfigs : NewAgent(d, c)
    \/ \E s \in AgentStates(agent), a \in AgentActions(agent) :
            Learn(s, a, Whole(4), s, TRUE)
    \/ DecayEpsilon
    \/ Save
    \/ Load
    \/ LoadFromFile
    \/ ResetQTable

SpecPersist == InitPersist /\ [][NextPersist]_vars

\* an agent with a table of two different rows, on which every method that
\* is not meant to replace the table is called, and whose returned rows are
\* written to
InitFrame ==
    /\ \E t \in TableInputs :
        /\ t[0] # t[1]
        /\ t[0][0] # t[0][1]
        /\ agent = [QLearningAgent(TableDims[1], TableDims[2],
                                   DecayTestConfig)
                        EXCEPT !.q_table = t]
    /\ aret = NoAgentCall
    /\ file = NoFile
    /\ saver = NoFile
    /\ learn_calls = 0
    /\ decay_calls = 0
    /\ ServerIdle /\ NoConstruction /\ EnvIdle /\ OthersIdle

NextFrame ==
    \/ \E s, n \in AgentStates(agent), a \in AgentActions(agent) :
            Learn(s, a, Whole(4), n, FALSE)
    \/ \E s \in AgentStates(agent), k \in AgentActions(agent) :
            SelectAction(s, TRUE, Frac(1, 2), k)
    \/ DecayEpsilon
    \/ GetPolicy
    \/ \E s \in AgentStates(agent) : GetStateValue(s)
    \/ \E s \in AgentStates(agent) : GetQValues(s)
    \/ \E k \in AgentActions(agent) : WriteReturned(k, Whole(7))
    \/ Save

SpecFrame == InitFrame /\ [][NextFrame]_vars

-----------------------------------------------------------------------\* one training task from its creation to its end, with cancels from the
\* handlers
InitLoop ==
    /\ \E n \in 1..MaxEpisodes : loop = NewLoop(n)
    /\ ServerIdle /\ NoConstruction /\ EnvIdle /\ AgentIdle /\ TwinIdle
    /\ BcastIdle /\ GameIdle

NextLoop ==
    \/ LoopResume
    \/ \E a \in Actions : LoopSelect(a)
    \/ LoopStep
    \/ \E elapsed \in BOOLEAN : LoopUpdate(elapsed)
    \/ LoopCancel

SpecLoop == InitLoop /\ [][NextLoop]_vars

\* done = terminated or truncated, after an accepted step
EpisodeOver == ret.op = "step" /\ ret.err = "ok" /\ (ret.terminated \/ ret.truncated)

\* between the reset of an episode and the step that ends it
EpisodeRunning == ret.op \in {"reset", "step"} /\ ret.err = "ok" /\ ~EpisodeOver

\* for episode in range(num_episodes): env.reset()
EpisodeReset == (ret.op = "none" \/ EpisodeOver) /\ Reset

\* while not done: env.step(action), with any action of the action space
EpisodeStep(action) == EpisodeRunning /\ Step(action)

\* episode loops: each is a reset followed by steps until one of them returns
\* terminated or truncated
InitEpisode == Init

NextEpisode ==
    \/ EpisodeReset
    \/ \E a \in Actions : EpisodeStep(a)

\* the loop goes on running: it is never left suspended for ever
SpecEpisode == InitEpisode /\ [][NextEpisode]_vars /\ WF_vars(NextEpisode)

\* clients connect and disconnect while broadcasts run
InitBroadcast ==
    /\ ServerIdle /\ NoConstruction /\ EnvIdle /\ AgentIdle
    /\ TwinIdle /\ LoopIdle /\ BcastIdle /\ GameIdle

NextBroadcast ==
    \/ \E c \in Clients : Connect(c)
    \/ \E c \in Clients : Disconnect(c)
    \/ BroadcastStart
    \/ BroadcastResume

SpecBroadcast == InitBroadcast /\ [][NextBroadcast]_vars

\* a game on any valid grid that starts in the corner
InitGame ==
    /\ cfg \in ValidConfigs
    /\ cfg.start_pos = <<0, 0>>
    /\ agent_pos = None
    /\ step_count = 0
    /\ ret = NoCall
    /\ accepted = 0
    /\ prev = "none"
    /\ game = NewGame(cfg)
    /\ NoConstruction /\ ServerIdle /\ AgentIdle
    /\ TwinIdle /\ LoopIdle /\ BcastIdle

NextGame ==
    \/ GameStep
    \/ \E key \in Keys : KeyPress(key)
    \/ CloseWindow

SpecGame == InitGame /\ [][NextGame]_vars

\* every client is connected and waits for a command; the clients send
\* start_training, stop_training and reset while the training tasks run
InitCommands ==
    /\ training_task = NoTask
    /\ current_agent = NoTask
    /\ tasks = <<>>
    /\ active_connections = [k \in 1..NumClients |-> k]
    /\ handler = [c \in Clients |-> [pc |-> "recv", awaiting |-> NoTask]]
    /\ NoConstruction /\ EnvIdle /\ AgentIdle /\ OthersIdle

NextCommands ==
    \/ \E c \in Clients :
        \/ RecvStart(c)
        \/ ResumeStart(c)
        \/ RecvStop(c)
        \/ ResumeStop(c)
        \/ RecvReset(c)
        \/ ResumeReset(c)
    \/ \E t \in 1..MaxTasks : RunTask(t)

SpecCommands == InitCommands /\ [][NextCommands]_vars

\* the cells of the server's grid an episode can still be running in
LoopCells ==
    {p \in (0..(ServerGridConfig.grid_size - 1))
                \X (0..(ServerGridConfig.grid_size - 1)) :
        p # ServerGridConfig.goal_pos /\ p \notin ServerGridConfig.obstacles}

\* a training task late in its first episode: all but two of the max_steps
\* steps are made, the agent stands in any cell that does not end the
\* episode, and the coroutine is suspended in the timed broadcast.  steps
\* and updates record what is done from here on.
InitLateLoop ==
    /\ \E n \in 1..MaxEpisodes, p \in LoopCells :
            loop = [NewLoop(n) EXCEPT !.pc = "step_broadcast",
                                      !.pos = p, !.state = p, !.next_state = p,
                                      !.count = ServerGridConfig.max_steps - 2,
                                      !.step = LoopMaxSteps - 2,
                                      !.reward = step_penalty]
    /\ ServerIdle /\ NoConstruction /\ EnvIdle /\ AgentIdle /\ TwinIdle
    /\ BcastIdle /\ GameIdle

SpecLateLoop == InitLateLoop /\ [][NextLoop]_vars

\* an environment of any valid grid that starts in the corner, and an agent
\* built for it
InitTrain ==
    /\ EnvInit
    /\ cfg.start_pos = <<0, 0>>
    /\ agent = TrainAgent(cfg)
    /\ aret = NoAgentCall
    /\ file = NoFile
    /\ saver = NoFile
    /\ learn_calls = 0
    /\ decay_calls = 0
    /\ NoConstruction /\ ServerIdle /\ OthersIdle

NextTrain ==
    \/ TrainReset
    \/ \E u \in {Whole(0), Frac(99, 100)}, k \in AgentActions(agent) :
            TrainStep(u, k)

SpecTrain == InitTrain /\ [][NextTrain]_vars

-----
(* Claims *)

\* a coordinate pair within [0, size) on both axes
Within(p, size) == p[1] \in 0..(size - 1) /\ p[2] \in 0..(size - 1)

\* the last call was a step that was accepted
StepAccepted == ret.op = "step" /\ ret.err = "ok"

\* the agent stands against the wall that action a moves into
AtWall(pos, a, size) ==
    \/ a = UP /\ pos[2] = 0
    \/ a = DOWN /\ pos[2] = size - 1
    \/ a = LEFT /\ pos[1] = 0
    \/ a = RIGHT /\ pos[1] = size - 1

\* C1: once reset, the agent's position is within [0, size) on both axes in
\* every reachable state, and a move into a wall is accepted and leaves the
\* position as it was.
C1_PositionInGrid ==
    /\ [](agent_pos # None => Within(agent_pos, cfg.grid_size))
    /\ [][\A a \in Actions :
            (agent_pos # None /\ AtWall(agent_pos, a, cfg.grid_size) /\ Step(a))
                => (ret'.err = "ok" /\ agent_pos' = agent_pos)]_vars

\* C1 witness: one accepted step from the start left the agent on the start:
\* it was a move into a wall.
C1_Witness ==
    /\ StepAccepted
    /\ accepted = 1
    /\ agent_pos = cfg.start_pos

\* C2: an accepted step that leaves the agent on the goal returns goal_reward
\* and terminated, also when the goal is listed among the obstacles.
C2_GoalRewardTerminates ==
    (StepAccepted /\ agent_pos = cfg.goal_pos)
        => (ret.reward = goal_reward /\ ret.terminated = TRUE
            /\ ret.obs = cfg.goal_pos)

\* C2 witness: a step reached a goal that is also an obstacle, not as the
\* first step of the episode.
C2_Witness ==
    /\ StepAccepted
    /\ agent_pos = cfg.goal_pos
    /\ cfg.goal_pos \in cfg.obstacles
    /\ accepted > 1

\* C3: an accepted step that leaves the agent on an obstacle that is not the
\* goal returns obstacle_penalty and terminated.
C3_ObstaclePenaltyTerminates ==
    (StepAccepted /\ agent_pos \in cfg.obstacles /\ agent_pos # cfg.goal_pos)
        => (ret.reward = obstacle_penalty /\ ret.terminated = TRUE)

\* C3 witness: a step landed on an obstacle that is not the goal.
C3_Witness ==
    /\ StepAccepted
    /\ agent_pos \in cfg.obstacles
    /\ agent_pos # cfg.goal_pos
    /\ ret.reward = obstacle_penalty

\* C4: the k-th accepted step since the last reset returns truncated exactly
\* when k >= max_steps; the max_steps-th step, when it lands on no terminal
\* cell, returns truncated and not terminated.
C4_TruncatedIffBudgetSpent ==
    StepAccepted =>
        /\ ret.truncated = (accepted >= cfg.max_steps)
        /\ (accepted = cfg.max_steps /\ agent_pos # cfg.goal_pos
                /\ agent_pos \notin cfg.obstacles)
            => (ret.truncated = TRUE /\ ret.terminated = FALSE)

\* C4 witness: the max_steps-th step of an episode, with max_steps > 1,
\* returned truncated and not terminated.
C4_Witness ==
    /\ StepAccepted
    /\ cfg.max_steps > 1
    /\ accepted = cfg.max_steps
    /\ ret.truncated = TRUE
    /\ ret.terminated = FALSE

\* C5: whatever was called before, reset leaves the agent on the configured
\* start with step_count 0, and returns the start and an empty info.
C5_ResetRestoresStart ==
    ret.op = "reset" =>
        /\ ret.err = "ok"
        /\ agent_pos = cfg.start_pos
        /\ step_count = 0
        /\ ret.obs = cfg.start_pos
        /\ ret.info = EmptyInfo

\* C5 witness: a reset called after a step that returned terminated and
\* truncated together.
C5_Witness ==
    /\ ret.op = "reset"
    /\ prev = "terminated and truncated"
    /\ cfg.start_pos # <<0, 0>>

\* the training_loop tasks created and not yet finished
ActiveTasks == {t \in DOMAIN tasks : tasks[t].pc # "done"}

\* C6: in the server, whatever start_training, stop_training and reset
\* commands the clients send and however their handlers interleave, at most
\* one training_loop task is active (created and not yet finished) at any
\* time.  (Checked under SpecServer.)
C6_AtMostOneActiveTask == Cardinality(ActiveTasks) <= 1

\* C7: on a reset environment a step with an action outside {0,1,2,3} raises
\* the invalid-action error and changes neither position nor step_count, so
\* every following step gives what it would have given without that call.
C7_InvalidActionRejected ==
    [][\A a \in ActionInputs \ Actions :
        (agent_pos # None /\ Step(a))
            => /\ ret'.err = "ValueError"
               /\ agent_pos' = agent_pos
               /\ step_count' = step_count
               /\ \A b \in Actions :
                    StepOutcome(agent_pos', step_count', b, cfg')
                        = StepOutcome(agent_pos, step_count, b, cfg)]_vars

\* C7 witness: a step was rejected in the middle of an episode.
C7_Witness ==
    /\ ret.op = "step"
    /\ ret.err = "ValueError"
    /\ step_count > 0
    /\ agent_pos # cfg.start_pos

\* C8: before the first reset every step, whatever its action, raises the
\* not-reset error and leaves the environment without a position and with
\* step_count 0; once reset, no step raises that error.
C8_StepBeforeReset ==
    [][/\ \A a \in ActionInputs :
            (agent_pos = None /\ Step(a))
                => (ret'.err = "RuntimeError" /\ agent_pos' = None
                    /\ step_count' = 0)
       /\ agent_pos # None
            => (agent_pos' # None /\ ret'.err # "RuntimeError")]_vars

\* C8 witness: a step was refused on an environment never reset.
C8_Witness ==
    /\ ret.op = "step"
    /\ ret.err = "RuntimeError"
    /\ agent_pos = None

\* C9 (checked under SpecConfig): the construction of a configuration fails exactly when the start, the
\* goal or some obstacle is outside the grid or the start is the goal; an
\* accepted configuration has all of them within the grid and start # goal.
C9_ConfigValidation ==
    built.status # "unbuilt" =>
        LET obstacles == IF args.obstacles = NoObstacles THEN {}
                         ELSE args.obstacles[1]
            bad == \/ ~Within(args.start_pos, args.grid_size)
                   \/ ~Within(args.goal_pos, args.grid_size)
                   \/ \E o \in obstacles : ~Within(o, args.grid_size)
                   \/ args.start_pos = args.goal_pos
        IN  /\ (built.status # "ok") = bad
            /\ built.status = "ok" =>
                /\ Within(built.config.start_pos, built.config.grid_size)
                /\ Within(built.config.goal_pos, built.config.grid_size)
                /\ \A o \in built.config.obstacles :
                        Within(o, built.config.grid_size)
                /\ built.config.start_pos # built.config.goal_pos

\* C9 witness: a construction refused for an obstacle outside the grid alone.
C9_Witness ==
    /\ built.status = "Obstacle position outside grid"
    /\ Within(args.start_pos, args.grid_size)
    /\ Within(args.goal_pos, args.grid_size)
    /\ args.start_pos # args.goal_pos

\* C10 (checked under SpecIndex): for every position p of the grid get_state_index(p) is y * size + x,
\* lies in [0, size * size) and is taken back to p by
\* get_position_from_index; for every index i in [0, size * size),
\* get_state_index(get_position_from_index(i)) is i.
C10_IndexBijection ==
    /\ (ret.op = "get_state_index" /\ ret.arg # None
            /\ Within(ret.arg, cfg.grid_size))
        => /\ ret.err = "ok"
           /\ ret.val = ret.arg[2] * cfg.grid_size + ret.arg[1]
           /\ ret.val \in 0..(cfg.grid_size * cfg.grid_size - 1)
           /\ get_position_from_index(ret.val, cfg) = ret.arg
    /\ (ret.op = "get_position_from_index"
            /\ ret.arg \in 0..(cfg.grid_size * cfg.grid_size - 1))
        => /\ Within(ret.val, cfg.grid_size)
           /\ get_state_index(ret.val, agent_pos, cfg)
                = [err |-> "ok", val |-> ret.arg]

\* C10 witness: the last index of a grid larger than 1 x 1 was converted to
\* the far corner.
C10_Witness ==
    /\ ret.op = "get_position_from_index"
    /\ cfg.grid_size > 1
    /\ ret.arg = cfg.grid_size * cfg.grid_size - 1
    /\ ret.val = <<cfg.grid_size - 1, cfg.grid_size - 1>>

\* C11: step_count is the number of step calls accepted since the last reset:
\* an accepted step adds exactly 1 to it wherever it leaves the agent (moved,
\* held by a wall, on the goal, on an obstacle) and a refused step adds
\* nothing.
C11_StepCountCountsAccepted ==
    /\ step_count = accepted
    /\ StepAccepted => ret.info.step_count = step_count

\* C11 witness: a step that ended on an obstacle was counted, and it was not
\* the first step of the episode.
C11_Witness ==
    /\ StepAccepted
    /\ agent_pos \in cfg.obstacles
    /\ step_count >= 2
    /\ accepted = step_count

\* C12: an accepted step returns terminated exactly when it leaves the agent
\* on the goal or on an obstacle; when it leaves it on neither, the reward is
\* step_penalty.
C12_TerminatedIffGoalOrObstacle ==
    StepAccepted =>
        LET ends == agent_pos = cfg.goal_pos \/ agent_pos \in cfg.obstacles
        IN  /\ ret.terminated = ends
            /\ ~ends => ret.reward = step_penalty

\* C12 witness: a step left the agent on a cell that is neither the goal nor
\* an obstacle, away from the start.
C12_Witness ==
    /\ StepAccepted
    /\ agent_pos # cfg.goal_pos
    /\ agent_pos \notin cfg.obstacles
    /\ agent_pos # cfg.start_pos
    /\ ret.terminated = FALSE
    /\ ret.reward = step_penalty

\* the greatest entry of a row: an entry that no entry exceeds
GreatestOf(row) ==
    CHOOSE v \in {row[i] : i \in DOMAIN row} :
        \A i \in DOMAIN row : FLeq(row[i], v)

\* the smallest index at which a row holds its greatest entry
FirstGreatest(row) ==
    CHOOSE i \in DOMAIN row :
        /\ row[i] = GreatestOf(row)
        /\ \A j \in DOMAIN row : row[j] = GreatestOf(row) => i <= j

\* the step is a call of learn
LearnCalled == aret'.op = "learn" /\ learn_calls' = learn_calls + 1

\* C13 (checked under SpecLearn): learn(s, a, r, s', terminated=False)
\* returns td_error = r + discount_factor * (greatest old entry of row s')
\* - (old Q[s, a]) and leaves Q[s, a] at its old value plus
\* learning_rate * td_error; with learning_rate 0.5, discount_factor 0.9,
\* Q[0, 0] = 2.0 and greatest entry 5.0 in row 1, learn(0, 0, 4.0, 1, False)
\* leaves Q[0, 0] = 5.25 and returns 6.5.
C13_LearnBellmanUpdate ==
    [][(LearnCalled /\ ~aret'.terminated) =>
        LET s == aret'.state_index
            a == aret'.action
            r == aret'.reward
            n == aret'.next_state_index
            old == agent.q_table[s][a]
            future == GreatestOf(agent.q_table[n])
            td == FSub(FAdd(r, FMul(agent.config.discount_factor, future)),
                       old)
        IN  /\ aret'.val = td
            /\ agent'.q_table[s][a] =
                    FAdd(old, FMul(agent.config.learning_rate, td))
            /\ (/\ agent.config.learning_rate = Frac(1, 2)
                /\ agent.config.discount_factor = Frac(9, 10)
                /\ s = 0 /\ a = 0 /\ r = Whole(4) /\ n = 1
                /\ old = Whole(2) /\ future = Whole(5))
                => /\ agent'.q_table[0][0] = Frac(525, 100)
                   /\ aret'.val = Frac(65, 10)]_vars

\* C13 witness: learn(0, 0, 4.0, 1, False) under learning_rate 0.5 and
\* discount_factor 0.9 returned 6.5 and left Q[0, 0] = 5.25, with 5.0 in row 1.
C13_Witness ==
    /\ aret.op = "learn"
    /\ aret.terminated = FALSE
    /\ aret.state_index = 0 /\ aret.action = 0 /\ aret.next_state_index = 1
    /\ aret.reward = Whole(4)
    /\ agent.config.learning_rate = Frac(1, 2)
    /\ agent.config.discount_factor = Frac(9, 10)
    /\ GreatestOf(agent.q_table[1]) = Whole(5)
    /\ aret.val = Frac(65, 10)
    /\ agent.q_table[0][0] = Frac(525, 100)

\* C14 (checked under SpecLearn): learn with terminated=True takes the reward
\* as its target: td_error is r - (old Q[s, a]) and Q[s, a] becomes its old
\* value plus learning_rate * (r - old Q[s, a]), whatever next_state_index is
\* and whatever the next state's row holds; with learning_rate 0.1 and
\* Q[s, a] = 0, reward 10.0 leaves Q[s, a] = 1.0.
C14_TerminalIgnoresFuture ==
    [][(LearnCalled /\ aret'.terminated) =>
        LET s == aret'.state_index
            a == aret'.action
            r == aret'.reward
            old == agent.q_table[s][a]
            td == FSub(r, old)
        IN  /\ aret'.val = td
            /\ agent'.q_table[s][a] =
                    FAdd(old, FMul(agent.config.learning_rate, td))
            /\ (/\ agent.config.learning_rate = Frac(1, 10)
                /\ old = Whole(0) /\ r = Whole(10))
                => agent'.q_table[s][a] = Whole(1)]_vars

\* C14 witness: a terminal learn under a discount factor that is not 0 named
\* another state as the next one, whose row holds a positive value.
C14_Witness ==
    /\ aret.op = "learn"
    /\ aret.terminated = TRUE
    /\ aret.next_state_index # aret.state_index
    /\ FLess(Whole(0), GreatestOf(agent.q_table[aret.next_state_index]))
    /\ agent.config.discount_factor # Whole(0)
    /\ agent.config.learning_rate = Frac(1, 10)
    /\ aret.reward = Whole(10)
    /\ agent.q_table[aret.state_index][aret.action] = Whole(1)

\* C15 (checked under SpecSelect): select_action(state, training=False)
\* returns the smallest action index whose value is the greatest of the
\* state's row, for every table, every epsilon and every random draw; it never
\* explores.
C15_GreedyFirstMaximum ==
    (aret.op = "select_action" /\ ~aret.training) =>
        /\ aret.val = FirstGreatest(agent.q_table[aret.state_index])
        /\ ~aret.explored

\* C15 witness: an evaluation call on a row with a tie returned index 0 although
\* the sample was below epsilon and the sampled action was another one.
C15_Witness ==
    /\ aret.op = "select_action"
    /\ aret.training = FALSE
    /\ FLess(aret.u, agent.epsilon)
    /\ agent.q_table[aret.state_index][0] = agent.q_table[aret.state_index][1]
    /\ FLess(Whole(0), agent.q_table[aret.state_index][0])
    /\ aret.val = 0
    /\ aret.k # aret.val

\* C16 (checked under SpecSelect): select_action(state, training=True)
\* explores, returning the sampled action index, which lies in
\* [0, num_actions), exactly when the sample u is less than epsilon, and
\* returns the greedy first-maximum action otherwise; with epsilon = 0 it
\* always returns the greedy action.
C16_ExploresIffSampleBelowEpsilon ==
    (aret.op = "select_action" /\ aret.training) =>
        LET greedy == FirstGreatest(agent.q_table[aret.state_index])
        IN  /\ aret.explored = FLess(aret.u, agent.epsilon)
            /\ aret.explored =>
                    (aret.val = aret.k /\ aret.val \in 0..(agent.num_actions - 1))
            /\ ~aret.explored => aret.val = greedy
            /\ agent.epsilon = Whole(0) => aret.val = greedy

\* C16 witness: a training call with u = epsilon did not explore and returned
\* the greedy action, not the sampled one.
C16_Witness ==
    /\ aret.op = "select_action"
    /\ aret.training = TRUE
    /\ aret.u = agent.epsilon
    /\ aret.explored = FALSE
    /\ aret.k # aret.val
    /\ aret.val = 1

\* the step is a call of decay_epsilon
DecayCalled == decay_calls' = decay_calls + 1

\* C17 (checked under SpecSelect): a decay_epsilon call sets epsilon to the
\* greater of epsilon_end and epsilon * epsilon_decay; after any number of
\* calls epsilon is not below epsilon_end; a call made when epsilon equals
\* epsilon_end, with epsilon_decay <= 1, leaves it unchanged.
C17_DecayFloorsAtEpsilonEnd ==
    /\ [][DecayCalled =>
            LET e_end == agent.config.epsilon_end
                decayed == FMul(agent.epsilon, agent.config.epsilon_decay)
            IN  /\ FLeq(e_end, decayed) => agent'.epsilon = decayed
                /\ FLess(decayed, e_end) => agent'.epsilon = e_end
                /\ (agent.epsilon = e_end
                        /\ FLeq(agent.config.epsilon_decay, Whole(1)))
                    => agent'.epsilon = agent.epsilon]_vars
    /\ [](decay_calls > 0 => FLeq(agent.config.epsilon_end, agent.epsilon))

\* C17 witness: two calls were made and epsilon stands on epsilon_end.
C17_Witness ==
    /\ aret.op = "decay_epsilon"
    /\ decay_calls >= 2
    /\ agent.epsilon = agent.config.epsilon_end

\* C18 (checked under SpecSelect): for every agent the drivers construct, the
\* server's with epsilon_start from the payload and epsilon_end 0.01 included,
\* epsilon is within [epsilon_end, epsilon_start] in every reachable state and
\* no decay_epsilon call raises it.
C18_EpsilonWithinBounds ==
    /\ [](/\ FLeq(agent.config.epsilon_end, agent.epsilon)
          /\ FLeq(agent.epsilon, agent.config.epsilon_start))
    /\ [][DecayCalled => FLeq(agent'.epsilon, agent.epsilon)]_vars

\* C19 (checked under SpecPersist): after save, a load into any agent
\* instance, or load_from_file, gives an agent whose table, epsilon,
\* hyperparameters and state and action counts are those the saving agent had
\* when it saved; save leaves the saving agent as it was.
C19_SaveLoadRoundTrip ==
    /\ []((aret.op \in {"load", "load_from_file"} /\ aret.err = "ok") =>
            /\ saver # NoFile
            /\ agent.q_table = saver[1].q_table
            /\ agent.epsilon = saver[1].epsilon
            /\ agent.config = saver[1].config
            /\ agent.num_states = saver[1].num_states
            /\ agent.num_actions = saver[1].num_actions)
    /\ [][aret'.op = "save" => agent' = agent]_vars

\* C19 witness: a load gave an agent with a table that is not all zeros and
\* an epsilon that is not the configured start.
C19_Witness ==
    /\ aret.op = "load"
    /\ aret.err = "ok"
    /\ agent.epsilon # agent.config.epsilon_start
    /\ agent.q_table # Zeros(agent.num_states, agent.num_actions)
    /\ agent = saver[1]

\* C20 (checked under SpecPersist): a load of a record whose state count or
\* action count differs from the live agent's fails with a
\* dimension-mismatch error and leaves the live agent as it was.
C20_LoadRejectsOtherDimensions ==
    [][(/\ aret'.op = "load"
        /\ file # NoFile
        /\ file' = file
        /\ \/ file[1].num_states # agent.num_states
           \/ file[1].num_actions # agent.num_actions)
        => (aret'.err = "DimensionMismatchError" /\ agent' = agent)]_vars

\* |p - q| summed over both axes
Manhattan(p, q) ==
    (IF p[1] >= q[1] THEN p[1] - q[1] ELSE q[1] - p[1])
        + (IF p[2] >= q[2] THEN p[2] - q[2] ELSE q[2] - p[2])

\* C25: an accepted step from a position that is not against the wall the
\* action moves into changes one coordinate by one (UP y-1, DOWN y+1, LEFT
\* x-1, RIGHT x+1) and leaves the other; every accepted step moves the agent
\* by a Manhattan distance of at most 1.
C25_MovesOneCell ==
    [][\A a \in Actions : (agent_pos # None /\ Step(a)) =>
        /\ ret'.err = "ok"
        /\ Manhattan(agent_pos, agent_pos') <= 1
        /\ ~AtWall(agent_pos, a, cfg.grid_size) =>
                agent_pos' =
                    IF a = UP THEN <<agent_pos[1], agent_pos[2] - 1>>
                    ELSE IF a = DOWN THEN <<agent_pos[1], agent_pos[2] + 1>>
                    ELSE IF a = LEFT THEN <<agent_pos[1] - 1, agent_pos[2]>>
                    ELSE <<agent_pos[1] + 1, agent_pos[2]>>]_vars

\* C25 witness: the second accepted step of an episode left the agent
\* diagonally across from the start: two moves, one on each axis.
C25_Witness ==
    /\ StepAccepted
    /\ step_count = 2
    /\ Manhattan(agent_pos, cfg.start_pos) = 2
    /\ agent_pos[1] # cfg.start_pos[1]
    /\ agent_pos[2] # cfg.start_pos[2]

\* C26: terminated and truncated are reported together: the accepted step
\* that is the max_steps-th of its episode and lands on the goal or on an
\* obstacle returns terminated and truncated both true, with the goal reward
\* (the obstacle penalty on an obstacle that is not the goal).
C26_TerminatedAndTruncated ==
    (/\ StepAccepted
     /\ step_count = cfg.max_steps
     /\ agent_pos = cfg.goal_pos \/ agent_pos \in cfg.obstacles)
        => /\ ret.terminated = TRUE
           /\ ret.truncated = TRUE
           /\ ret.reward = IF agent_pos = cfg.goal_pos THEN goal_reward
                           ELSE obstacle_penalty

\* C26 witness: the second step of an episode of max_steps = 2 reached the
\* goal and returned both flags.
C26_Witness ==
    /\ StepAccepted
    /\ cfg.max_steps = 2
    /\ step_count = 2
    /\ agent_pos = cfg.goal_pos
    /\ ret.terminated /\ ret.truncated
    /\ ret.reward = goal_reward

\* C27: the info of every accepted step has step_count equal to the
\* environment's step_count after the step, is_goal true exactly when the
\* returned position is the goal and is_obstacle true exactly when it is
\* among the obstacles; terminated is (is_goal or is_obstacle).
C27_InfoReflectsPosition ==
    StepAccepted =>
        /\ ret.info.step_count = step_count
        /\ ret.info.is_goal = (ret.obs = cfg.goal_pos)
        /\ ret.info.is_obstacle = (ret.obs \in cfg.obstacles)
        /\ ret.terminated = (ret.info.is_goal \/ ret.info.is_obstacle)

\* C27 witness: a step ended on a goal that is listed among the obstacles:
\* both is_goal and is_obstacle are reported.
C27_Witness ==
    /\ StepAccepted
    /\ ret.obs = cfg.goal_pos
    /\ cfg.goal_pos \in cfg.obstacles
    /\ ret.info.is_goal /\ ret.info.is_obstacle
    /\ ret.info.step_count = 2

\* the last call was one of the read-only methods
ReadOps ==
    {"render", "get_state_index", "get_position_from_index", "num_states",
     "num_actions"}

\* C29 (checked under SpecRead): render, get_state_index,
\* get_position_from_index, num_states and num_actions leave the position and
\* step_count as they are in every state, before the first reset included;
\* only reset and accepted steps change them.
C29_ReadsLeaveStateAlone ==
    /\ [][ret'.op \in ReadOps =>
            (agent_pos' = agent_pos /\ step_count' = step_count)]_vars
    /\ [][(agent_pos' # agent_pos \/ step_count' # step_count) =>
            (ret'.op \in {"reset", "step"} /\ ret'.err = "ok")]_vars

\* C29 witness: render was called after two accepted steps and drew the agent
\* away from the start, with step_count still 2.
C29_Witness ==
    /\ ret.op = "render"
    /\ step_count = 2
    /\ accepted = 2
    /\ ret.val.step = 2
    /\ agent_pos # cfg.start_pos
    /\ ret.val.grid[agent_pos[2]][agent_pos[1]] = "A"

\* what a caller sees of a call: the observation, the reward and both flags
Seen(e) ==
    [err |-> e.ret.err, obs |-> e.ret.obs, reward |-> e.ret.reward,
     terminated |-> e.ret.terminated, truncated |-> e.ret.truncated]

\* C23: two environments of one configuration that were reset (with any
\* seeds) and given the same actions return the same observation, reward,
\* terminated and truncated at every call, and hold the same position and
\* step_count, whatever their seeds were.
C23_SeedsDoNotMatter ==
    /\ Seen(twin[1]) = Seen(twin[2])
    /\ twin[1].agent_pos = twin[2].agent_pos
    /\ twin[1].step_count = twin[2].step_count

\* two accepted steps after resets with different seeds, one of them 42
C23_Witness ==
    /\ twin[1].np_random = <<42>>
    /\ twin[2].np_random # twin[1].np_random
    /\ twin[1].ret.op = "step"
    /\ twin[1].ret.err = "ok"
    /\ twin[1].step_count = 2
    /\ twin[1].agent_pos # cfg.start_pos

\* the transition the coroutine holds in its locals once env.step returned
LoopTransition ==
    <<loop.state, loop.action, loop.reward, loop.next_state, loop.done>>

\* C30: in the training loop every env.step is followed by agent.update for
\* that transition before the next action is selected and before any await:
\* the updates are the steps in the same order, at most the last step waits
\* for its update and then no await has been reached, and a cancel never
\* finds a step without its update.
C30_UpdateFollowsStep ==
    /\ loop.pc = "update" => loop.steps = Append(loop.updates, LoopTransition)
    /\ loop.pc # "update" => loop.updates = loop.steps
    /\ loop.must_cancel => loop.updates = loop.steps /\ loop.pc # "update"

\* a cancel is caught after two steps of an episode, both updated
C30_Witness ==
    /\ loop.pc = "stopped"
    /\ Len(loop.steps) = 2
    /\ loop.episode = 0
    /\ loop.steps[1][1] # loop.steps[2][1]

\* every entry of table t other than [s][a] is what it is in table q
SameButEntry(t, q, s, a) ==
    /\ DOMAIN t = DOMAIN q
    /\ \A i \in DOMAIN q :
        /\ DOMAIN t[i] = DOMAIN q[i]
        /\ \A j \in DOMAIN q[i] : (i # s \/ j # a) => t[i][j] = q[i][j]

\* the hyperparameters and the counts of the agent are left as they are
SameSettings ==
    /\ agent'.config = agent.config
    /\ agent'.num_states = agent.num_states
    /\ agent'.num_actions = agent.num_actions

\* C21: reset_q_table sets every entry of the table to zero and epsilon to
\* the configured epsilon_start, and leaves the hyperparameters and the
\* state and action counts as they were, from any agent state.
C21_ResetClearsAll ==
    [][aret'.op = "reset_q_table" =>
            /\ DOMAIN agent'.q_table = AgentStates(agent)
            /\ \A s \in AgentStates(agent) :
                /\ DOMAIN agent'.q_table[s] = AgentActions(agent)
                /\ \A a \in AgentActions(agent) :
                        agent'.q_table[s][a] = Whole(0)
            /\ agent'.epsilon = agent.config.epsilon_start
            /\ SameSettings]_vars

\* the table was reset after a learn on its last state and a decay
C21_Witness ==
    /\ aret.op = "reset_q_table"
    /\ learn_calls > 0
    /\ decay_calls > 0
    /\ agent.num_states = 2
    /\ file # NoFile
    /\ file[1].q_table[1] # agent.q_table[1]
    /\ file[1].epsilon # agent.epsilon

\* C22: get_policy returns one action per state index, in the order of the
\* indices, and its entry for state s is what select_action(s,
\* training=False) returns, whatever the table holds, ties included.
C22_PolicyIsGreedySelection ==
    aret.op = "get_policy" =>
        /\ DOMAIN aret.val = AgentStates(agent)
        /\ \A s \in AgentStates(agent), u \in UInputs,
              k \in AgentActions(agent) :
                aret.val[s] = select_action(agent, s, FALSE, u, k).val

\* the policy of a table with a tie in one row and a later maximum in the
\* other
C22_Witness ==
    /\ aret.op = "get_policy"
    /\ agent.q_table[0][0] = agent.q_table[0][1]
    /\ agent.q_table[0][0] # Whole(0)
    /\ FLess(agent.q_table[1][0], agent.q_table[1][1])
    /\ aret.val[0] = 0
    /\ aret.val[1] = 1

\* C24: a newly constructed agent has a table of num_states rows of
\* num_actions entries, all zero, and epsilon equal to the configured
\* epsilon_start.
C24_NewAgentIsBlank ==
    aret.op = "__init__" =>
        /\ agent.num_states = aret.num_states
        /\ agent.num_actions = aret.num_actions
        /\ agent.config = aret.config
        /\ DOMAIN agent.q_table = 0..(aret.num_states - 1)
        /\ \A s \in DOMAIN agent.q_table :
            /\ DOMAIN agent.q_table[s] = 0..(aret.num_actions - 1)
            /\ \A a \in DOMAIN agent.q_table[s] :
                    agent.q_table[s][a] = Whole(0)
        /\ agent.epsilon = aret.config.epsilon_start

\* an agent constructed after another one learned, decayed and was saved
C24_Witness ==
    /\ aret.op = "__init__"
    /\ learn_calls > 0
    /\ file # NoFile
    /\ file[1].epsilon # agent.epsilon
    /\ file[1].num_states # agent.num_states

\* C28: learn(s, a, ...) changes at most the entry Q[s, a] and leaves
\* epsilon and the hyperparameters alone; select_action, decay_epsilon,
\* get_policy, get_state_value, get_q_values and save leave the whole table
\* alone, and so does a write to the array get_q_values returned.
C28_OnlyLearnWritesOneEntry ==
    [][/\ aret'.op = "learn" =>
            /\ SameButEntry(agent'.q_table, agent.q_table,
                            aret'.state_index, aret'.action)
            /\ agent'.epsilon = agent.epsilon
            /\ SameSettings
       /\ aret'.op \in {"select_action", "decay_epsilon", "get_policy",
                         "get_state_value", "get_q_values", "save",
                         "returned_write"} =>
            agent'.q_table = agent.q_table]_vars

\* a row that get_q_values returned was written to after a learn changed
\* the table, and the row of the table is not what the array now holds
C28_Witness ==
    /\ aret.op = "returned_write"
    /\ learn_calls > 0
    /\ aret.val # agent.q_table[aret.state_index]
    /\ agent.q_table[0] # agent.q_table[1]

\* C31: goal and obstacle cells are absorbing: a step called right after a
\* step that returned terminated, with no reset in between, leaves the agent
\* in the cell it is in.
C31_TerminalCellsAbsorb ==
    [][(/\ ret.op = "step" /\ ret.err = "ok" /\ ret.terminated
        /\ ret'.op = "step")
            => agent_pos' = agent_pos]_vars

\* C32: an episode loop that resets and then steps until terminated or
\* truncated is returned never makes more than max_steps accepted steps,
\* whatever actions it takes, and it does come to its end.
C32_EpisodeEnds ==
    /\ [](step_count <= cfg.max_steps /\ accepted <= cfg.max_steps)
    /\ [](EpisodeRunning => <>EpisodeOver)

\* an episode that ran its whole budget and was ended by truncation alone
C32_Witness ==
    /\ EpisodeOver
    /\ ret.truncated
    /\ ~ret.terminated
    /\ cfg.max_steps = MaxSteps
    /\ accepted = cfg.max_steps

\* C33: when a broadcast has ended, every connection that was in
\* active_connections from its start to its end was sent the message exactly
\* once, whatever connected or disconnected while a send was awaited.
C33_BroadcastReachesAll ==
    bcast.pc = "done" => \A c \in bcast.stayed : bcast.got[c] = 1

\* a handler sends its reply to stop_training or reset after the await: the
\* task it cancelled, the one that ran when the command came, is done
RepliesAfterTheEnd ==
    \A c \in Clients :
        (handler[c].pc \in {"stop_await", "reset_await"}
            /\ handler'[c].pc = "recv")
                => tasks[handler[c].awaiting].pc = "done"

\* a task that is done runs no more: it steps no environment and updates
\* no table
DoneStaysDone ==
    \A t \in DOMAIN tasks : tasks[t].pc = "done" => tasks'[t] = tasks[t]

\* a command is handled without an await while no training loop runs: no
\* task is made, no handler is suspended, nobody connects or disconnects
HandledWhileIdle ==
    /\ ~TaskRunning
    /\ tasks' = tasks
    /\ handler' = handler
    /\ active_connections' = active_connections

C36_TableHasAgentDimensions ==
    /\ DOMAIN agent.q_table = AgentStates(agent)
    /\ \A s \in AgentStates(agent) :
            DOMAIN agent.q_table[s] = AgentActions(agent)

\* a load has just replaced an agent of one state by a record of two
C36_Witness ==
    /\ aret.op = "load"
    /\ aret.err = "ok"
    /\ aret.num_states = 1
    /\ agent.num_states = 2
    /\ file[1].q_table # Zeros(agent.num_states, agent.num_actions)

\* C37: every observation that reset or step returns goes through
\* get_state_index to an index in [0, num_states), and every action that
\* select_action returns for an agent built with the environment's
\* num_states and num_actions is one of 0..3: in the training loop no table
\* index is out of range and step rejects no action of the agent.
C37_IndicesAndActionsInRange ==
    /\ aret.op \in {"train_reset", "train_step"} =>
        /\ aret.err = "ok"
        /\ ret.err = "ok"
        /\ get_state_index(ret.obs, agent_pos, cfg).val
                \in 0..(num_states(cfg) - 1)
        /\ aret.next_state_index \in AgentStates(agent)
        /\ aret.state_index \in AgentStates(agent)
        /\ aret.action \in Actions
        /\ aret.action \in AgentActions(agent)
    /\ agent.num_states = num_states(cfg)

\* the second iteration of an episode took the last action into the last
\* state of a grid of four cells, by exploration
C37_Witness ==
    /\ aret.op = "train_step"
    /\ learn_calls = 2
    /\ step_count = 2
    /\ aret.action = RIGHT
    /\ aret.next_state_index = num_states(cfg) - 1
    /\ num_states(cfg) = 4
    /\ agent.q_table[aret.state_index][LEFT] = Whole(0)

\* the game's environment was stepped or reset, or a key press was applied
GameActed ==
    \/ game'.pos # game.pos
    \/ game'.count # game.count
    \/ game'.used # game.used

\* C38: in the Tk game, once a step has returned terminated or truncated
\* the environment is not stepped again before a restart; the restart key
\* resets the environment, clears the trail (the render that follows puts
\* the start cell on it) and the game-over flag; and a game step that
\* applies a key press takes it away, so that no press is applied twice.
C38_GameOverUntilRestart ==
    [][/\ ((game.terminated \/ game.truncated) /\ GameActed) =>
            /\ game.current_action = "restart"
            /\ game'.pos = cfg.start_pos
            /\ game'.count = 0
            /\ ~game'.terminated /\ ~game'.truncated
            /\ ~game'.game_over
            /\ game'.trail = <<cfg.start_pos>>
       /\ game'.used # game.used =>
            /\ game'.used = game.used + 1
            /\ game.current_action \notin {"none", "quit"}
            /\ game'.current_action = "none"
       /\ game'.used <= game'.keys]_vars

\* a movement ended the first episode by truncation, the restart key began
\* the second, and a movement was applied in it
C38_Witness ==
    /\ cfg.max_steps = 1
    /\ game.episode = 2
    /\ game.count = 1
    /\ game.used = 3
    /\ game.keys = 3
    /\ game.truncated
    /\ ~game.terminated
    /\ game.game_over
    /\ Len(game.trail) = 2

====
